---- MODULE Spec2Model ----
(***************************************************************************)
(* The incident simulator's two-stage pipeline: the sharded producer       *)
(* (server/src/simulator.js), the delayed-repair scheduler                 *)
(* (server/src/repairScheduler.js), the run state (runState.js), the       *)
(* seeded generator (rng.js) and the store helpers (db.js).                *)
(*                                                                         *)
(* Every await on the store is a suspension point: the handler's code up   *)
(* to the await is one action and its continuation another.  An await on a *)
(* value that is already there (connectDB with the cached client, a        *)
(* synchronous return of repairScheduler.stop) resumes in the same turn of *)
(* the event loop and is folded into the action that reaches it.           *)
(***************************************************************************)
EXTENDS Integers, Sequences, FiniteSets, Bags, TLC

\* ---------------------------------------------------------------- bounds
\* API calls issued over one behaviour of the producer or of the scheduler.
MaxCalls == 3
\* API calls issued over one behaviour of the two together.
MaxFullCalls == 2
\* The clock runs 0..MaxNow, in steps of ClockUnitSec seconds.
MaxNow == 1
\* Incident documents the store takes before inserts stop completing.
MaxIncidents == 3
\* Entries of the rolling history before shards stop starting new ticks.
MaxHist == 2
\* Scheduler ticks counted by one scheduler start.
MaxTicks == 2
\* One-shot repair timers created over one behaviour.
MaxTimers == 2
\* Store operations that fail over one behaviour.
MaxFaults == 1
\* Bounds of the rate-split calculation (SpecSplit).
MaxRate == 12
\* Batch sizes of the batch-loop calculation (SpecTick).
MaxBatch == 4
\* Length and entries of the histories of the moving-average calculation
\* (SpecMA): one entry more than the status window holds.
MaxHistLen == 11
MaxEntry == 2
\* Locations of the catalogs the producer is loaded with (SpecCatalog).
MaxCities == 2
\* The largest budgetPerTick handed to the scheduler, and the recent
\* incidents it finds: one more than five times a budget of 1 (SpecBudget).
MaxBudget == 2
MaxPool == 6
\* Log-normal samples and maxDelaySec settings of the delay calculation
\* (SpecDelay): a sample above the smaller cap, and a number of seconds
\* whose milliseconds do not fit 32 bits.
MaxBase == 60
MaxCap == 5
BigSec == 3000000
\* Candidates of the pools handed to the picker, and the grid of the values
\* its RNG returns: 0, 1/StreamDen, ..., 1 (SpecPick).
MaxPick == 3
StreamDen == 4
\* Seeds 0..MaxSeed and OneSeed, and the values drawn from one generator
\* (SpecRng).
MaxSeed == 40
MaxDraws == 3
\* Rejected pairs of one rejection loop that are followed (SpecGauss).
MaxIters == 6

\* ------------------------------------------------------- program constants
MAX_CONCURRENCY == 128
MAX_BATCH_SIZE == 50000
MAX_EPS == 1000000
STATUS_WINDOW_SEC == 10
HISTORY_CAP == 300

\* Sentinels for JavaScript's null in numeric and identifier positions.
NoSeed == 0 - 1
NoTime == 0 - 1
\* A Date the program stores and never reads back: only its presence is kept.
ADate == 0
NoRun == <<>>
NoRng == <<>>

\* ---------------------------------------------------------------- rng.js
W16 == 65536

RECURSIVE XorBits(_, _, _)
\* Bitwise exclusive-or of the low n bits of a and b.
XorBits(a, b, n) ==
  IF n = 0 THEN 0
  ELSE (((a % 2) + (b % 2)) % 2) + 2 * XorBits(a \div 2, b \div 2, n - 1)

\* The exclusive-or of two 4-bit digits, tabulated.
XorNib == [a \in 0..15 |-> [b \in 0..15 |-> XorBits(a, b, 4)]]

\* Bitwise exclusive-or of two 16-bit words, digit by digit.
Xor16(a, b) ==
  XorNib[a % 16][b % 16]
  + 16 * XorNib[(a \div 16) % 16][(b \div 16) % 16]
  + 256 * XorNib[(a \div 256) % 16][(b \div 256) % 16]
  + 4096 * XorNib[a \div 4096][b \div 4096]

\* A 32-bit word is <<high 16 bits, low 16 bits>>.
Xor32(x, y) == << Xor16(x[1], y[1]), Xor16(x[2], y[2]) >>
Shl13(x) == << ((x[1] * 8192) % W16) + (x[2] \div 8), (x[2] * 8192) % W16 >>
Shr17(x) == << 0, x[1] \div 2 >>
Shl5(x) == << ((x[1] * 32) % W16) + (x[2] \div 2048), (x[2] * 32) % W16 >>

\* s ^= s << 13; s ^= s >>> 17; s ^= s << 5
XorShift32(s) ==
  LET a == Xor32(s, Shl13(s))
      b == Xor32(a, Shr17(a))
  IN  Xor32(b, Shl5(b))

\* 0xffffffff, the divisor of rand() and the largest state.
AllOnes == << W16 - 1, W16 - 1 >>

\* 0x5e6cfce7, the seed whose first xorshift32 step gives 0xffffffff.
OneSeed == 1584200935

\* Number(seed) >>> 0 for the non-negative integer seeds of the model.
SeedWord(seed) == << (seed \div W16) % W16, seed % W16 >>

\* floor((s / 0xffffffff) * n) for a small positive n, on the exact quotient.
RandFloor(s, n) ==
  LET c  == s[1] * n + ((s[2] * n) \div W16)
      lo == (s[2] * n) % W16
      q  == c \div W16
      rh == c % W16
  IN  IF rh = W16 - 1 /\ lo + q >= W16 - 1 THEN q + 1 ELSE q

\* (s / 0xffffffff) > pct / 100
RandGtPct(s, pct) ==
  LET x1 == s[1] * 100 + ((s[2] * 100) \div W16)
      y1 == (s[2] * 100) % W16
      x2 == IF pct = 0 THEN 0 ELSE pct * W16 - 1
      y2 == IF pct = 0 THEN 0 ELSE W16 - pct
  IN  x1 > x2 \/ (x1 = x2 /\ y1 > y2)

\* |rand() * 2 - 1| as a numerator over 0xffffffff, for rand() = a / 0xffffffff:
\* 2a - 0xffffffff when a >= 2^31, else 0xffffffff - 2a (the complement of 2a).
AbsTwiceMinusOne(a) ==
  IF a[1] >= 32768
  THEN << 2 * (a[1] - 32768) + (a[2] \div 32768), ((2 * a[2]) % W16) + 1 >>
  ELSE << (W16 - 1) - (2 * a[1] + (a[2] \div 32768)), (W16 - 1) - ((2 * a[2]) % W16) >>

\* The four bytes of a 32-bit word, lowest first, indexed 0..3.
Bytes(x) ==
  [k \in 0..3 |-> CASE k = 0 -> x[2] % 256
                    [] k = 1 -> x[2] \div 256
                    [] k = 2 -> x[1] % 256
                    [] k = 3 -> x[1] \div 256]

RECURSIVE SqCoefFrom(_, _, _)
\* Sum of x[j] * x[k - j] over the j in i..3 with k - j in 0..3.
SqCoefFrom(x, k, i) ==
  IF i > 3 THEN 0
  ELSE (IF k - i \in 0..3 THEN x[i] * x[k - i] ELSE 0) + SqCoefFrom(x, k, i + 1)

\* Coefficient k (of 256^k) of the square of the number with bytes x.
SqCoef(x, k) == SqCoefFrom(x, k, 0)

RECURSIVE CarryBytes(_, _, _)
\* The bytes (lowest first, indexed 0..8) of the number whose coefficients
\* of 256^k are c[k], from position k on with carry in.
CarryBytes(c, k, carry) ==
  IF k > 8 THEN <<>>
  ELSE LET v == (IF k <= 6 THEN c[k] ELSE 0) + carry
       IN  << v % 256 >> \o CarryBytes(c, k + 1, v \div 256)

\* u*u + v*v as a numerator over 0xffffffff^2, for the numerators x of |u|
\* and y of |v|: nine bytes, lowest first.
SumOfSquares(x, y) ==
  CarryBytes([k \in 0..6 |-> SqCoef(Bytes(x), k) + SqCoef(Bytes(y), k)], 0, 0)

\* 0xffffffff^2 = 0xfffffffe00000001, nine bytes, lowest first.
AllOnesSquared == << 1, 0, 0, 0, 254, 255, 255, 255, 0 >>

RECURSIVE GeBytes(_, _, _)
\* a >= b for two numbers of k bytes, lowest first.
GeBytes(a, b, k) ==
  IF k = 0 THEN TRUE
  ELSE IF a[k] # b[k] THEN a[k] > b[k]
  ELSE GeBytes(a, b, k - 1)

\* while (r === 0 || r >= 1), for u = rand() * 2 - 1 and v = rand() * 2 - 1
\* drawn as a / 0xffffffff and b / 0xffffffff.
polarRejects(a, b) ==
  LET r == SumOfSquares(AbsTwiceMinusOne(a), AbsTwiceMinusOne(b))
  IN  r = << 0, 0, 0, 0, 0, 0, 0, 0, 0 >> \/ GeBytes(r, AllOnesSquared, 9)

\* ------------------------------------------------------------- config.js
\* The clock unit is a minute, two default recent windows.
ClockUnitSec == 60
UnitsPerMinute == 60 \div ClockUnitSec

\* buildSimRunId: the UTC minute of the start instant and the seed part.
buildSimRunId(seed, t) == << t \div UnitsPerMinute, seed >>

\* ----------------------------------------------------------- simulator.js
\* A request body; spread is in tenths (0.2..5.0 is 2..50).
Body(r, b, s, seed, k, rep) ==
  [eventsPerSec |-> r, batchSize |-> b, spread |-> s, seed |-> seed,
   concurrency |-> k, repairsEnabled |-> rep]

\* Two shards, and one shard with two batches a tick, without repairs.
ValidBodies ==
  { Body(3, 2, 10, 1, 2, FALSE),
    Body(2, 1, 10, NoSeed, 1, FALSE) }

\* One shard, one document a tick, with repairs.
RepairBodies == { Body(1, 1, 10, 1, 1, TRUE) }

InvalidBodies ==
  { Body(0, 2, 10, 1, 1, FALSE),
    Body(3, MAX_BATCH_SIZE + 1, 10, 1, 1, FALSE),
    Body(3, 2, 51, 1, 1, FALSE),
    Body(3, 2, 10, 1, MAX_CONCURRENCY + 1, FALSE),
    Body(1, 2, 10, 1, 2, TRUE) }

Bodies == ValidBodies \cup InvalidBodies

\* validateParams: TRUE when no check throws.
validateParams(body) ==
  /\ body.eventsPerSec >= 1 /\ body.eventsPerSec <= MAX_EPS
  /\ body.batchSize >= 1 /\ body.batchSize <= MAX_BATCH_SIZE
  /\ body.spread >= 2 /\ body.spread <= 50
  /\ body.concurrency >= 1 /\ body.concurrency <= MAX_CONCURRENCY
  /\ ~(body.eventsPerSec < body.concurrency)

\* The split with the extra unit handed to one shard too many.
targetEpsOffByOne(r, k, i) ==
  LET base == r \div k
      remainder == r % k
  IN  base + (IF i <= remainder THEN 1 ELSE 0)

\* targetEps of shard i (0-based): base + (i < remainder ? 1 : 0)
targetEps(r, k, i) ==
  LET base == r \div k
      remainder == r % k
  IN  base + (IF i < remainder THEN 1 ELSE 0)

ShardTargets(r, k) == [i \in 1..k |-> targetEps(r, k, i - 1)]

\* Math.max(1, Math.ceil(eps / batchSize))
Batches(eps, batchSize) ==
  LET c == (eps + batchSize - 1) \div batchSize
  IN  IF c > 1 THEN c ELSE 1

\* A batch that is never truncated.
BatchSizeAtFull(eps, batchSize, b) == batchSize

\* Math.min(batchSize, eps - b * batchSize) || batchSize
BatchSizeAt(eps, batchSize, b) ==
  LET m == IF batchSize < eps - b * batchSize THEN batchSize ELSE eps - b * batchSize
  IN  IF m = 0 THEN batchSize ELSE m

RECURSIVE SumSeq(_)
SumSeq(s) == IF s = <<>> THEN 0 ELSE Head(s) + SumSeq(Tail(s))

\* The average over the whole history, whatever the window.
movingAverageWhole(history, windowSec) ==
  IF Len(history) = 0 THEN 0
  ELSE (2 * SumSeq(history) + Len(history)) \div (2 * Len(history))

\* movingAverage: Math.round(sum / len) over the last min(len, window) entries.
movingAverage(history, windowSec) ==
  IF Len(history) = 0 THEN 0
  ELSE LET len == IF Len(history) < windowSec THEN Len(history) ELSE windowSec
           sum == SumSeq(SubSeq(history, Len(history) - len + 1, Len(history)))
       IN  (2 * sum + len) \div (2 * len)


\* -------------------------------------------------------------- the state
VARIABLES
  now,          \* the wall clock, in units of ClockUnitSec
  faults,       \* store operations that have failed so far
  SIM,          \* simulator.js: running, params, workers, stats
  runState,     \* runState.js: simRunId, startedAt, params
  shards,       \* the live runWorker closures: shard id -> its locals
  rngs,         \* the makeRNG closures of the producer: start call -> stream
  sim_runs,     \* the run-descriptor collection (unique index on simRunId)
  incident_events, \* the incident collection
  fix_events,   \* the repair collection (unique index on simRunId, incidentId)
  SCHED,        \* repairScheduler.js: the scheduler singleton
  timeouts,     \* the one-shot repair timers the runtime still holds
  tickFetch,    \* the recent-incidents query a tick is awaiting, if any
  nCalls,       \* API calls issued so far
  pending,      \* the suspended API calls: call id -> its locals
  lastRet,      \* the call that returned last, and what it returned
  nTimers,      \* repair timers created so far (the last handle handed out)
  stopSeen      \* the repair timers not yet fired when stop() was last called

\* What a returning call leaves behind for its caller: its result and status,
\* whether no other call was in flight when it was issued (quiet), whether
\* live, the shards alive as it returns, is empty (drained), and the return
\* that came before it.
Ret(id, op, result, status, quiet, live) ==
  [id |-> id, op |-> op, result |-> result, status |-> status, quiet |-> quiet,
   drained |-> live = {},
   prev |-> [id |-> lastRet.id, op |-> lastRet.op, result |-> lastRet.result,
             status |-> lastRet.status]]

vars == << now, faults, SIM, runState, shards, rngs, sim_runs, incident_events,
           fix_events, SCHED, timeouts, tickFetch, nCalls, pending, lastRet,
           nTimers, stopSeen >>

prodVars == << SIM, runState, shards, rngs, sim_runs >>
schedVars == << SCHED, timeouts, tickFetch, fix_events, nTimers, stopSeen >>
callVars == << nCalls, pending, lastRet >>

EmptyMap == [k \in {} |-> 0]
Range(f) == { f[x] : x \in DOMAIN f }
Drop(f, x) == [y \in DOMAIN f \ {x} |-> f[y]]
Put(f, x, v) == [y \in DOMAIN f \cup {x} |-> IF y = x THEN v ELSE f[y]]
Max(a, b) == IF a > b THEN a ELSE b
Min(a, b) == IF a < b THEN a ELSE b

\* ---------------------------------------------------- repairScheduler.js
\* CONFIG.REPAIR over FALLBACKS; pFixProbability is in hundredths.
FALLBACKS ==
  [cadenceMs |-> 1000, budgetPerTick |-> 5, recentWindowSec |-> 30,
   delayMedianSec |-> 300, delayP95Sec |-> 1800, delayJitterSec |-> 10,
   pFixProbability |-> 92, maxDelaySec |-> 7200]

CR ==
  [cadenceMs |-> 1000, budgetPerTick |-> 5, recentWindowSec |-> 30,
   delayMedianSec |-> 60, delayP95Sec |-> 150, delayJitterSec |-> 10,
   pFixProbability |-> 92, maxDelaySec |-> 300]

CfgKeys == DOMAIN FALLBACKS

\* numOr(CR.x, FALLBACKS.x) for every numeric setting
DEFAULTS == [k \in CfgKeys |-> IF k \in DOMAIN CR THEN CR[k] ELSE FALLBACKS[k]]

\* pickNum(cfg.x, DEFAULTS.x); an override is present when its key is.
pickNum(cfg, k) == IF k \in DOMAIN cfg THEN cfg[k] ELSE DEFAULTS[k]

\* The overrides the model passes to start and configure.
Overrides ==
  { EmptyMap,
    [k \in {"budgetPerTick"} |-> 1],
    [k \in {"cadenceMs"} |-> 500] }

SchedInit ==
  [state |-> "idle", simRunId |-> NoRun, cfg |-> DEFAULTS, rngFn |-> NoRng,
   timer |-> FALSE, ticking |-> FALSE,
   ticks |-> 0, candidatesEmitted |-> 0, scheduled |-> 0, persisted |-> 0,
   duplicatesIgnored |-> 0, droppedByProbability |-> 0, lastTickAt |-> NoTime,
   timersByIncident |-> EmptyMap]

\* repairScheduler.status()
SchedStatus(S) ==
  [state |-> S.state, simRunId |-> S.simRunId, cfg |-> S.cfg,
   ticks |-> S.ticks, candidatesEmitted |-> S.candidatesEmitted,
   scheduled |-> S.scheduled, persisted |-> S.persisted,
   duplicatesIgnored |-> S.duplicatesIgnored,
   droppedByProbability |-> S.droppedByProbability,
   activeTimers |-> Cardinality(DOMAIN S.timersByIncident),
   lastTickAt |-> S.lastTickAt]

\* stopLoop: clear the interval, clearTimeout every handle of the table
\* (a no-op on a timer whose callback already runs), clear the table.
stopLoop(S, tos) ==
  [SCHED |-> [S EXCEPT !.timer = FALSE, !.timersByIncident = EmptyMap],
   timeouts |-> { t \in tos : t.fired \/ t.h \notin Range(S.timersByIncident) }]

\* startLoop: setInterval(tick, cadenceMs)
startLoop(S) == [S EXCEPT !.timer = TRUE]

\* 0xC0FFEE, the seed start falls back to when +seed is not finite.
C0FFEE == 12648430

\* finalSeed of start: +null is 0, so only a non-numeric seed is not finite.
finalSeed(seed) == IF seed = NoSeed THEN 0 ELSE seed

\* A start that merges the overrides before it looks for the run id.
schedStartLateCheck(S, tos, ctxRunId, seed, cfg) ==
  IF S.state = "running" /\ S.simRunId = ctxRunId
  THEN [result |-> "ok", SCHED |-> S, timeouts |-> tos]
  ELSE LET S0 == [S EXCEPT !.cfg = [k \in CfgKeys |-> pickNum(cfg, k)]]
       IN  IF ctxRunId = NoRun
           THEN [result |-> "400", SCHED |-> S0, timeouts |-> tos]
           ELSE LET S1 == [S0 EXCEPT
                             !.state = "running",
                             !.simRunId = ctxRunId,
                             !.rngFn = SeedWord(finalSeed(seed)),
                             !.ticks = 0, !.candidatesEmitted = 0, !.scheduled = 0,
                             !.persisted = 0, !.duplicatesIgnored = 0,
                             !.droppedByProbability = 0, !.lastTickAt = NoTime]
                    sl == stopLoop(S1, tos)
                IN  [result |-> "ok", SCHED |-> startLoop(sl.SCHED),
                     timeouts |-> sl.timeouts]

\* A start that restarts the scheduler even on the run it is running on.
schedStartAlways(S, tos, ctxRunId, seed, cfg) ==
  IF ctxRunId = NoRun
  THEN [result |-> "400", SCHED |-> S, timeouts |-> tos]
  ELSE LET S1 == [S EXCEPT
                    !.cfg = [k \in CfgKeys |-> pickNum(cfg, k)],
                    !.state = "running",
                    !.simRunId = ctxRunId,
                    !.rngFn = SeedWord(finalSeed(seed)),
                    !.ticks = 0, !.candidatesEmitted = 0, !.scheduled = 0,
                    !.persisted = 0, !.duplicatesIgnored = 0,
                    !.droppedByProbability = 0, !.lastTickAt = NoTime]
           sl == stopLoop(S1, tos)
       IN  [result |-> "ok", SCHED |-> startLoop(sl.SCHED), timeouts |-> sl.timeouts]

\* repairScheduler.start(simRunContext, cfg): the result and the new state.
schedStart(S, tos, ctxRunId, seed, cfg) ==
  IF S.state = "running" /\ S.simRunId = ctxRunId
  THEN [result |-> "ok", SCHED |-> S, timeouts |-> tos]
  ELSE IF ctxRunId = NoRun
  THEN [result |-> "400", SCHED |-> S, timeouts |-> tos]
  ELSE LET S1 == [S EXCEPT
                    !.cfg = [k \in CfgKeys |-> pickNum(cfg, k)],
                    !.state = "running",
                    !.simRunId = ctxRunId,
                    !.rngFn = SeedWord(finalSeed(seed)),
                    !.ticks = 0, !.candidatesEmitted = 0, !.scheduled = 0,
                    !.persisted = 0, !.duplicatesIgnored = 0,
                    !.droppedByProbability = 0, !.lastTickAt = NoTime]
           sl == stopLoop(S1, tos)
       IN  [result |-> "ok", SCHED |-> startLoop(sl.SCHED), timeouts |-> sl.timeouts]

\* repairScheduler.configure(cfg)
schedConfigure(S, tos, cfg) ==
  LET S1 == [S EXCEPT !.cfg = [k \in CfgKeys |-> IF k \in DOMAIN cfg THEN cfg[k] ELSE S.cfg[k]]]
  IN  IF "cadenceMs" \in DOMAIN cfg /\ S.state = "running"
      THEN LET sl == stopLoop(S1, tos)
           IN  [SCHED |-> startLoop(sl.SCHED), timeouts |-> sl.timeouts]
      ELSE [SCHED |-> S1, timeouts |-> tos]

\* repairScheduler.stop() up to its first suspension: done is FALSE when it
\* is left polling the reentrancy guard.
schedStopBegin(S, tos) ==
  IF S.state = "idle" THEN [done |-> TRUE, SCHED |-> S, timeouts |-> tos]
  ELSE IF S.ticking
  THEN [done |-> FALSE, SCHED |-> [S EXCEPT !.state = "stopping"], timeouts |-> tos]
  ELSE LET sl == stopLoop(S, tos)
       IN  [done |-> TRUE,
            SCHED |-> [sl.SCHED EXCEPT !.state = "idle", !.simRunId = NoRun, !.rngFn = NoRng],
            timeouts |-> sl.timeouts]

\* A guard loop that waits for the tick however long it takes.
stopGuardWaitsForTick(S, expired) == ~S.ticking

\* while (SCHED.ticking && Date.now() - start < GUARD_MS): the loop is left
\* once the tick is over or the guard's second has expired.
stopGuardOver(S, expired) == ~S.ticking \/ expired

\* repairScheduler.stop() after the guard loop: stopLoop, then idle.
schedStopEnd(S, tos) ==
  LET sl == stopLoop(S, tos)
  IN  [SCHED |-> [sl.SCHED EXCEPT !.state = "idle", !.simRunId = NoRun, !.rngFn = NoRng],
       timeouts |-> sl.timeouts]


\* ----------------------------------------------------------- simulator.js
\* SIM once initSimulator has loaded a catalog of one location.
SimInit ==
  [running |-> FALSE,
   params |-> Body(8000, 1000, 20, NoSeed, 1, FALSE),
   workers |-> {}, history |-> <<>>, activeWorkers |-> 0,
   cityModelSize |-> 1]

NoParams == [none |-> TRUE]
RunStateInit == [simRunId |-> NoRun, startedAt |-> NoTime, params |-> NoParams]

\* getStatus()
getStatus(S, run) ==
  [running |-> S.running, params |-> S.params,
   insertsPerSecMA |-> movingAverage(S.history, STATUS_WINDOW_SEC),
   activeWorkers |-> S.activeWorkers,
   cityModelSize |-> S.cityModelSize,
   simRunId |-> run.simRunId, runStartedAt |-> run.startedAt,
   runParams |-> run.params]

NoStatus == [none |-> TRUE]
NoPrev == [id |-> 0, op |-> "none", result |-> "none", status |-> NoStatus]
NoCall == [id |-> 0, op |-> "none", result |-> "none", status |-> NoStatus,
           quiet |-> TRUE, drained |-> TRUE, prev |-> NoPrev]

Init ==
  /\ now = 0
  /\ faults = 0
  /\ SIM = SimInit
  /\ runState = RunStateInit
  /\ shards = EmptyMap
  /\ rngs = EmptyMap
  /\ sim_runs = <<>>
  /\ incident_events = {}
  /\ fix_events = <<>>
  /\ SCHED = SchedInit
  /\ timeouts = {}
  /\ tickFetch = <<>>
  /\ nCalls = 0
  /\ pending = EmptyMap
  /\ lastRet = NoCall
  /\ nTimers = 0
  /\ stopSeen = {}

\* A store operation fails (storeFails) or not.
StoreOutcome(storeFails) ==
  /\ storeFails => faults < MaxFaults
  /\ faults' = IF storeFails THEN faults + 1 ELSE faults

\* The clock advances.
ClockTick ==
  /\ now < MaxNow
  /\ now' = now + 1
  /\ UNCHANGED << faults, prodVars, incident_events, schedVars, callVars >>

\* insertOne into sim_runs under the unique index on simRunId.
HasSimRun(coll, simRunId) == \E i \in 1..Len(coll) : coll[i].simRunId = simRunId

\* A start that never takes the early return.
StartIsNoOpNever(S) == FALSE

\* if (SIM.running) return getStatus();
StartIsNoOp(S) == S.running

\* The locals of a startSimulator call suspended at its descriptor insert.
StartPending(body, t, quiet) ==
  [op |-> "start", pc |-> "insertSimRun", p |-> body,
   simRunId |-> buildSimRunId(body.seed, t),
   early |-> FALSE, seen |-> {},
   quiet |-> quiet, expired |-> FALSE]

\* startSimulator up to the descriptor insert it awaits.
StartCall(body) ==
  /\ nCalls' = nCalls + 1
  /\ IF StartIsNoOp(SIM)
     THEN /\ lastRet' = Ret(nCalls + 1, "start", "ok", getStatus(SIM, runState),
                             pending = EmptyMap, DOMAIN shards)
          /\ UNCHANGED << SIM, pending >>
     ELSE IF ~validateParams(body)
     THEN /\ lastRet' = Ret(nCalls + 1, "start", "400", NoStatus, pending = EmptyMap,
                             DOMAIN shards)
          /\ UNCHANGED << SIM, pending >>
     ELSE /\ SIM' = [SIM EXCEPT !.params = body]
          /\ pending' = Put(pending, nCalls + 1,
                            StartPending(body, now, pending = EmptyMap))
          /\ UNCHANGED lastRet
  /\ UNCHANGED << now, faults, runState, shards, rngs, sim_runs, incident_events, schedVars >>

\* The shard ids a start hands out: one block of MAX_CONCURRENCY per call.
ShardId(call, i) == call * MAX_CONCURRENCY + i

\* runWorker up to its first insertMany: the closure's locals, with the
\* first batch built (built counts the events drawn before it).
NewShard(p, i, simRunId, call, t) ==
  [eps |-> targetEps(p.eventsPerSec, p.concurrency, i - 1),
   batchSize |-> p.batchSize, simRunId |-> simRunId, gen |-> call,
   alive |-> TRUE, pc |-> "insert", b |-> 0, insertedThisTick |-> 0, ts |-> t,
   failed |-> FALSE, late |-> FALSE]

RECURSIVE FirstBatches(_, _)
\* The events the first i shards draw for their first batches.
FirstBatches(p, i) ==
  IF i = 0 THEN 0
  ELSE FirstBatches(p, i - 1)
       + BatchSizeAt(targetEps(p.eventsPerSec, p.concurrency, i - 1), p.batchSize, 0)

\* The body of POST /start's response: the producer's status, the
\* scheduler's status, and with them the repairConfig of the request and
\* whether the request went on to establish the run (started).
RouteResponse(simulator, S, c, started) ==
  [simulator |-> simulator, scheduler |-> SchedStatus(S),
   repairConfig |-> c.repairConfig, started |-> started]

\* startSimulator from the descriptor insert on: the insert's outcome, the
\* run state, the scheduler when repairs are enabled, the shards.  On an
\* empty catalog pickCity returns undefined and jitterPoint throws while the
\* first event is built: every shard runs its finally block before
\* runWorker returns, and no shard is left.  Under
\* POST /start the route goes on in the same turn: it starts the scheduler
\* with the request's repairConfig and awaits the repair count.
StartInsertDone(id, storeFails) ==
  /\ StoreOutcome(storeFails)
  /\ id \in DOMAIN pending
  /\ pending[id].pc = "insertSimRun"
  /\ LET c == pending[id]
         p == c.p
         route == c.op = "postStart"
     IN  IF storeFails \/ HasSimRun(sim_runs, c.simRunId)
         THEN /\ lastRet' = Ret(id, c.op, "500", NoStatus, c.quiet, DOMAIN shards)
              /\ pending' = Drop(pending, id)
              /\ UNCHANGED << SIM, runState, shards, rngs, sim_runs, schedVars >>
         ELSE LET ss0 == IF p.repairsEnabled
                         THEN schedStart(SCHED, timeouts, c.simRunId, p.seed, EmptyMap)
                         ELSE [result |-> "ok", SCHED |-> SCHED, timeouts |-> timeouts]
                  ss == IF route /\ p.repairsEnabled
                        THEN schedStart(ss0.SCHED, ss0.timeouts, c.simRunId, p.seed,
                                        c.repairConfig)
                        ELSE ss0
                  ids == { ShardId(id, i) : i \in 1..p.concurrency }
                  spawned == IF SIM.cityModelSize = 0 THEN {} ELSE ids
                  SIM1 == [SIM EXCEPT !.running = TRUE, !.history = <<>>,
                                      !.workers = ids,
                                      !.activeWorkers = Cardinality(spawned)]
                  run1 == [simRunId |-> c.simRunId, startedAt |-> ADate,
                           params |-> p]
              IN  /\ sim_runs' = Append(sim_runs,
                                   [simRunId |-> c.simRunId, startedAt |-> ADate,
                                    endedAt |-> NoTime, closes |-> 0])
                  /\ runState' = run1
                  /\ SCHED' = ss.SCHED
                  /\ timeouts' = ss.timeouts
                  /\ SIM' = SIM1
                  /\ rngs' = Put(rngs, id, [seed |-> p.seed,
                                            built |-> IF spawned = {} THEN 0
                                                      ELSE FirstBatches(p, p.concurrency),
                                            clean |-> shards = EmptyMap])
                  /\ shards' = [w \in DOMAIN shards \cup spawned |->
                                  IF w \in spawned
                                  THEN NewShard(p, w - id * MAX_CONCURRENCY, c.simRunId, id, now)
                                  ELSE shards[w]]
                  /\ IF route
                     THEN /\ pending' = Put(pending, id,
                                 [c EXCEPT !.pc = "countFixEvents",
                                           !.resp = RouteResponse(getStatus(SIM1, run1),
                                                                  ss.SCHED, c, TRUE)])
                          /\ UNCHANGED lastRet
                     ELSE /\ lastRet' = Ret(id, "start", "ok", getStatus(SIM1, run1),
                                             c.quiet, spawned)
                          /\ pending' = Drop(pending, id)
                  /\ UNCHANGED << tickFetch, fix_events, nTimers, stopSeen >>
  /\ UNCHANGED << now, incident_events, nCalls >>


\* The descriptor of run simRunId has been closed (endedAt is set).
RunClosed(coll, simRunId) ==
  \E i \in 1..Len(coll) : coll[i].simRunId = simRunId /\ coll[i].endedAt # NoTime

\* A shard that counts only the batches the store took.
countAfterInsertOnlyStored(insertedThisTick, size, storeFails) ==
  IF storeFails THEN insertedThisTick ELSE insertedThisTick + size

\* insertedThisTick after one insertMany of size documents: insertedCount on
\* success, docs.length in the catch block.
countAfterInsert(insertedThisTick, size, storeFails) == insertedThisTick + size

\* insertMany resolves or rejects for shard w: the accounting, then the
\* next batch of the tick or, after the last one, the history entry and
\* the sleep.  The for loop over the batches reads neither SIM.running nor
\* alive.  failed keeps whether an insert of the tick was rejected, late
\* whether the batch in flight was built after its run's descriptor was
\* closed.
WorkerInsertDone(w, storeFails) ==
  /\ StoreOutcome(storeFails)
  /\ w \in DOMAIN shards
  /\ shards[w].pc = "insert"
  /\ LET sh == shards[w]
         size == BatchSizeAt(sh.eps, sh.batchSize, sh.b)
         n == Cardinality(incident_events)
         inserted == countAfterInsert(sh.insertedThisTick, size, storeFails)
         b1 == sh.b + 1
         more == b1 < Batches(sh.eps, sh.batchSize)
         h1 == Append(SIM.history, inserted)
     IN  /\ storeFails \/ n + size <= MaxIncidents
         /\ incident_events' =
              IF storeFails THEN incident_events
              ELSE incident_events \cup
                   { [id |-> i, simRunId |-> sh.simRunId, ts |-> sh.ts] : i \in (n + 1)..(n + size) }
         /\ IF more
            THEN /\ shards' = [shards EXCEPT ![w].b = b1, ![w].insertedThisTick = inserted,
                                             ![w].ts = now,
                                             ![w].failed = @ \/ storeFails,
                                             ![w].late = RunClosed(sim_runs, sh.simRunId)]
                 /\ rngs' = [rngs EXCEPT ![sh.gen].built = @ + BatchSizeAt(sh.eps, sh.batchSize, b1)]
                 /\ UNCHANGED SIM
            ELSE /\ shards' = [shards EXCEPT ![w].pc = "sleep", ![w].insertedThisTick = inserted,
                                             ![w].failed = @ \/ storeFails]
                 /\ SIM' = [SIM EXCEPT !.history =
                              IF Len(h1) > HISTORY_CAP
                              THEN SubSeq(h1, Len(h1) - HISTORY_CAP + 1, Len(h1))
                              ELSE h1]
                 /\ UNCHANGED rngs
  /\ UNCHANGED << now, runState, sim_runs, schedVars, callVars >>

\* The sleep of shard w ends: the while condition, then the next tick's
\* first batch, or the finally block.
WorkerWake(w) ==
  /\ w \in DOMAIN shards
  /\ shards[w].pc = "sleep"
  /\ LET sh == shards[w]
     IN  IF SIM.running /\ sh.alive
         THEN /\ Len(SIM.history) < MaxHist
              /\ shards' = [shards EXCEPT ![w].pc = "insert", ![w].b = 0,
                                          ![w].insertedThisTick = 0, ![w].ts = now,
                                          ![w].failed = FALSE,
                                          ![w].late = RunClosed(sim_runs, sh.simRunId)]
              /\ rngs' = [rngs EXCEPT ![sh.gen].built = @ + BatchSizeAt(sh.eps, sh.batchSize, 0)]
              /\ UNCHANGED SIM
         ELSE /\ shards' = Drop(shards, w)
              /\ SIM' = [SIM EXCEPT !.activeWorkers = Max(0, @ - 1)]
              /\ UNCHANGED rngs
  /\ UNCHANGED << now, faults, runState, sim_runs, incident_events, schedVars, callVars >>

\* The timers that have not fired yet.
Unfired(tos) == { t.h : t \in { x \in tos : ~x.fired } }

\* Where stopSimulator suspends next once repairScheduler.stop() is back.
AfterSchedStop(early, activeWorkers, simRunId) ==
  IF early THEN "return"
  ELSE IF activeWorkers > 0 THEN "drain"
  ELSE IF simRunId # NoRun THEN "endSimRun" ELSE "return"

\* A stop that returns from the drain loop without closing the descriptor.
AfterDrainSkipsClose(simRunId) == "return"

\* Where stopSimulator suspends next once the drain loop is left.
AfterDrain(simRunId) == IF simRunId # NoRun THEN "endSimRun" ELSE "return"

\* A stop that returns without clearCurrentSimRun().
StopSettleKeepsRun(id, c, pc1, S) ==
  IF pc1 = "return"
  THEN /\ runState' = runState
       /\ lastRet' = Ret(id, "stop", "ok", getStatus(S, runState), c.quiet, DOMAIN shards)
       /\ pending' = Drop(pending, id)
  ELSE /\ runState' = runState
       /\ pending' = Put(pending, id, [c EXCEPT !.pc = pc1])
       /\ UNCHANGED lastRet

\* stopSimulator moves to pc1: it either suspends there or clears the run
\* state (not on the early path) and returns getStatus().
StopSettle(id, c, pc1, S) ==
  IF pc1 = "return"
  THEN LET run1 == IF c.early THEN runState ELSE RunStateInit
       IN  /\ runState' = run1
           /\ lastRet' = Ret(id, "stop", "ok", getStatus(S, run1), c.quiet, DOMAIN shards)
           /\ pending' = Drop(pending, id)
  ELSE /\ runState' = runState
       /\ pending' = Put(pending, id, [c EXCEPT !.pc = pc1])
       /\ UNCHANGED lastRet

\* stopSimulator up to its first suspension.
StopCall ==
  /\ nCalls' = nCalls + 1
  /\ LET early == ~SIM.running /\ SIM.activeWorkers = 0
         SIM1 == IF early THEN SIM
                 ELSE [SIM EXCEPT !.running = FALSE, !.workers = {}]
         sb == schedStopBegin(SCHED, timeouts)
         c == [op |-> "stop", pc |-> "schedStop", p |-> NoParams,
               simRunId |-> runState.simRunId,
               early |-> early, seen |-> Unfired(timeouts),
               quiet |-> pending = EmptyMap, expired |-> FALSE]
         pc1 == IF sb.done
                THEN AfterSchedStop(early, SIM1.activeWorkers, c.simRunId)
                ELSE "schedStop"
     IN  /\ SIM' = SIM1
         /\ shards' = [w \in DOMAIN shards |->
                         IF w \in SIM.workers /\ ~early
                         THEN [shards[w] EXCEPT !.alive = FALSE] ELSE shards[w]]
         /\ SCHED' = sb.SCHED
         /\ timeouts' = sb.timeouts
         /\ stopSeen' = IF sb.done THEN stopSeen \cup c.seen ELSE stopSeen
         /\ StopSettle(nCalls + 1, c, pc1, SIM1)
  /\ UNCHANGED << now, faults, rngs, sim_runs, incident_events, tickFetch, fix_events, nTimers >>

\* repairScheduler.stop() leaves its guard loop (the tick is over, or the
\* 1 s guard expired) inside stopSimulator call id.
StopSchedDone(id, expired) ==
  /\ id \in DOMAIN pending
  /\ pending[id].op = "stop"
  /\ pending[id].pc = "schedStop"
  /\ stopGuardOver(SCHED, expired)
  /\ LET c == pending[id]
         se == schedStopEnd(SCHED, timeouts)
     IN  /\ SCHED' = se.SCHED
         /\ timeouts' = se.timeouts
         /\ stopSeen' = stopSeen \cup c.seen
         /\ StopSettle(id, c, AfterSchedStop(c.early, SIM.activeWorkers, c.simRunId), SIM)
  /\ UNCHANGED << now, faults, SIM, shards, rngs, sim_runs, incident_events, tickFetch,
                  fix_events, nTimers, nCalls >>

\* stopSimulator leaves its drain loop: no shard is active, or the guard
\* (STOP_GUARD_MS, 2000 by default) expired.
StopDrainDone(id, expired) ==
  /\ id \in DOMAIN pending
  /\ pending[id].pc = "drain"
  /\ SIM.activeWorkers = 0 \/ expired
  /\ StopSettle(id, [pending[id] EXCEPT !.expired = SIM.activeWorkers > 0],
                AfterDrain(pending[id].simRunId), SIM)
  /\ UNCHANGED << now, faults, SIM, shards, rngs, sim_runs, incident_events, schedVars, nCalls >>

\* endSimRun: updateOne({simRunId}, {$set: {endedAt}}) on the first match.
endSimRun(coll, simRunId) ==
  LET hits == { i \in 1..Len(coll) : coll[i].simRunId = simRunId }
  IN  IF hits = {} THEN coll
      ELSE LET i == CHOOSE x \in hits : \A y \in hits : x <= y
           IN  [coll EXCEPT ![i].endedAt = ADate, ![i].closes = @ + 1]

\* The descriptor update of stopSimulator resolves or rejects; the run
\* state is cleared either way.
StopEndRunDone(id, storeFails) ==
  /\ StoreOutcome(storeFails)
  /\ id \in DOMAIN pending
  /\ pending[id].pc = "endSimRun"
  /\ sim_runs' = IF storeFails THEN sim_runs
                 ELSE endSimRun(sim_runs, pending[id].simRunId)
  /\ StopSettle(id, pending[id], "return", SIM)
  /\ UNCHANGED << now, SIM, shards, rngs, incident_events, schedVars, nCalls >>


\* ------------------------------------------------- the scheduler's tick
\* chooseCategoryFrom: every branch returns the infrastructure tag.
chooseCategoryFrom(issue) == "infrastructure"

\* The issue of an incident, as makeServiceIssue draws it: the model gives
\* the odd documents an infrastructure type and the even ones a consumer type.
serviceIssue(id) ==
  IF id % 2 = 1 THEN [type |-> "backhaul", category |-> "infrastructure"]
  ELSE [type |-> "broadband", category |-> "consumer"]

RECURSIVE NewestFirst(_)
\* sort: { ts: -1 }, ties by insertion order, newest first
NewestFirst(docs) ==
  IF docs = {} THEN <<>>
  ELSE LET d == CHOOSE x \in docs :
                  \A y \in docs : x.ts > y.ts \/ (x.ts = y.ts /\ x.id >= y.id)
       IN  <<d>> \o NewestFirst(docs \ {d})

\* The query without its limit.
fetchRecentIncidentsNoLimit(coll, q) ==
  LET hits == NewestFirst({ d \in coll :
                 d.simRunId = q.simRunId /\ d.ts * ClockUnitSec >= q.since })
  IN  [i \in 1..Len(hits) |-> hits[i].id]

\* fetchRecentIncidents: the ids of find({simRunId, ts >= since}), newest
\* first, cut to Math.max(limit, 1).
fetchRecentIncidents(coll, q) ==
  LET hits == NewestFirst({ d \in coll :
                 d.simRunId = q.simRunId /\ d.ts * ClockUnitSec >= q.since })
      n == Min(Len(hits), Max(q.limit, 1))
  IN  [i \in 1..n |-> hits[i].id]

\* The largest delay setTimeout takes, in milliseconds.
INT32_MAX == 2147483647

\* A delay that is not cut to maxDelaySec.
delaySecUncapped(baseSec, jitter, maxDelaySec) == Max(1, baseSec + jitter)

\* delaySec = Math.max(1, baseSec + jitter);
\* if (delaySec > maxDelaySec) delaySec = maxDelaySec;
delaySec(baseSec, jitter, maxDelaySec) ==
  LET d == Max(1, baseSec + jitter)
  IN  IF d > maxDelaySec THEN maxDelaySec ELSE d

\* Math.min(delaySec * 1000, 2147483647), without leaving 32 bits.
delayMs(sec) == IF sec > INT32_MAX \div 1000 THEN INT32_MAX ELSE sec * 1000

\* Math.floor((rngFn() * 2 - 1) * delayJitterSec) on the draw s.
jitterOf(s, delayJitterSec) == RandFloor(s, 2 * delayJitterSec) - delayJitterSec

\* sampleLogNormalSeconds returns an integer of at least 1 that the model
\* does not compute: a tick takes the samples of its candidates, in turn,
\* from the sequence bases.  The median of the defaults, every time:
MedianBases == << DEFAULTS.delayMedianSec >>

\* scheduleFixTimer: one timer per incident id in the table; the timer
\* keeps the delaySec and delayMs its tick computed.
scheduleFixTimer(st, incidentId, sec, ms) ==
  IF incidentId \in DOMAIN st.S.timersByIncident THEN st
  ELSE [st EXCEPT
          !.tos = @ \cup { [h |-> st.nh + 1, incidentId |-> incidentId,
                            simRunId |-> st.S.simRunId, fired |-> FALSE,
                            delaySec |-> sec, delayMs |-> ms] },
          !.nh = @ + 1,
          !.S.timersByIncident = Put(@, incidentId, st.nh + 1),
          !.S.scheduled = @ + 1]

\* What JavaScript reads at an index past the end of an array.
Undefined == 0

\* A picker that leaves idx as it is.
pickNoSwap(idx, i, j) == idx

\* [idx[i], idx[j]] = [idx[j], idx[i]]
pickSwap(idx, i, j) == [idx EXCEPT ![i + 1] = idx[j + 1], ![j + 1] = idx[i + 1]]

RECURSIVE pickerLoop(_, _, _, _, _)
\* The for loop of deterministicPicker at position i, with the values the
\* RNG has still to return (rs, numerators over StreamDen) and the
\* candidates yielded so far.
pickerLoop(rs, items, idx, i, yielded) ==
  IF i < 0 THEN yielded
  ELSE LET j == (rs[1] * (i + 1)) \div StreamDen
           k == idx[j + 1]
       IN  pickerLoop(Tail(rs), items, pickSwap(idx, i, j), i - 1,
                      Append(yielded, IF k = Undefined THEN Undefined ELSE items[k]))

\* deterministicPicker(rngFn, items), run to its end: the candidates in the
\* order it yields them.  idx has one slot past its end, which is where an
\* rngFn() of exactly 1 makes the first iteration read and write.
deterministicPicker(rs, items) ==
  pickerLoop(rs, items,
             [p \in 1..(Len(items) + 1) |-> IF p <= Len(items) THEN p ELSE Undefined],
             Len(items) - 1, <<>>)

RECURSIVE tickLoop(_, _, _)
\* for (const d of deterministicPicker(rngFn, infraPool)): position i of
\* the Fisher-Yates walk, then the loop body for the candidate it yields.
tickLoop(st, items, i) ==
  IF i < 0 \/ st.err THEN st
  ELSE LET s1 == XorShift32(st.S.rngFn)
           j == RandFloor(s1, i + 1)
           inRange == j + 1 <= Len(st.idx)
           k == st.idx[j + 1]
           idx1 == pickSwap(st.idx, i, j)
           drawn == [st EXCEPT !.S.rngFn = s1]
       IN  IF st.emitted >= st.S.cfg.budgetPerTick THEN drawn
           ELSE IF ~inRange THEN [drawn EXCEPT !.err = TRUE]
           ELSE LET g == XorShift32(s1)
                    cand == [drawn EXCEPT !.idx = idx1, !.emitted = @ + 1,
                                          !.S.candidatesEmitted = @ + 1,
                                          !.S.rngFn = g]
                IN  IF RandGtPct(g, st.S.cfg.pFixProbability)
                    THEN tickLoop([cand EXCEPT !.S.droppedByProbability = @ + 1],
                                  items, i - 1)
                    ELSE LET j3 == XorShift32(XorShift32(XorShift32(g)))
                             baseSec == st.bases[(st.emitted % Len(st.bases)) + 1]
                             sec == delaySec(baseSec,
                                             jitterOf(j3, st.S.cfg.delayJitterSec),
                                             st.S.cfg.maxDelaySec)
                         IN  tickLoop(
                               scheduleFixTimer([cand EXCEPT !.S.rngFn = j3],
                                                items[k], sec, delayMs(sec)),
                               items, i - 1)

\* tick() after the query resolved with pool: filter, walk, count.  A null
\* rngFn (the scheduler was stopped meanwhile) throws at the first draw.
tickBody(S, tos, nh, pool, bases) ==
  LET infraPool == SelectSeq(pool, LAMBDA id : chooseCategoryFrom(serviceIssue(id)) = "infrastructure")
      st0 == [S |-> S, tos |-> tos, nh |-> nh, emitted |-> 0, err |-> FALSE,
              bases |-> bases,
              idx |-> [i \in 1..Len(infraPool) |-> i]]
      st == IF infraPool = <<>> THEN st0
            ELSE IF S.rngFn = NoRng THEN [st0 EXCEPT !.err = TRUE]
            ELSE tickLoop(st0, infraPool, Len(infraPool) - 1)
  IN  IF st.err THEN [st EXCEPT !.S.ticking = FALSE]
      ELSE [st EXCEPT !.S.ticks = @ + 1, !.S.lastTickAt = ADate, !.S.ticking = FALSE]

\* A guard that lets a tick in while another one is in flight.
tickReturnsAtOnceUnlessIdle(S) == S.state # "running"

\* if (SCHED.ticking || SCHED.state !== 'running') return;
tickReturnsAtOnce(S) == S.ticking \/ S.state # "running"

\* The interval fires: tick() returns at its guard, or sets the guard and
\* issues the query.  The query in flight keeps whether a firing was turned
\* away meanwhile (overlapped).
IntervalFire ==
  /\ SCHED.timer
  /\ IF tickReturnsAtOnce(SCHED)
     THEN /\ tickFetch' = IF tickFetch = <<>> THEN tickFetch
                          ELSE [tickFetch EXCEPT !.overlapped = TRUE]
          /\ UNCHANGED SCHED
     ELSE /\ SCHED.ticks < MaxTicks
          /\ SCHED' = [SCHED EXCEPT !.ticking = TRUE]
          /\ tickFetch' = [simRunId |-> SCHED.simRunId,
                           limit |-> SCHED.cfg.budgetPerTick * 5,
                           since |-> now * ClockUnitSec - SCHED.cfg.recentWindowSec,
                           overlapped |-> FALSE]
  /\ UNCHANGED << now, faults, prodVars, incident_events, timeouts, fix_events, nTimers,
                  stopSeen, callVars >>

\* A tick that leaves the reentrancy guard set when its query rejects.
tickFailedKeepsGuard(S) == S

\* tick() when the query rejects: the catch block logs, the finally block
\* releases the guard.
tickFailed(S) == [S EXCEPT !.ticking = FALSE]

\* The query resolves or rejects and the tick runs to its end.
TickFetchDone(storeFails, bases) ==
  /\ StoreOutcome(storeFails)
  /\ tickFetch # <<>>
  /\ tickFetch' = <<>>
  /\ IF storeFails
     THEN /\ SCHED' = tickFailed(SCHED)
          /\ UNCHANGED << timeouts, nTimers >>
     ELSE LET st == tickBody(SCHED, timeouts, nTimers,
                             fetchRecentIncidents(incident_events, tickFetch), bases)
          IN  /\ st.nh <= MaxTimers
              /\ SCHED' = st.S
              /\ timeouts' = st.tos
              /\ nTimers' = st.nh
  /\ UNCHANGED << now, prodVars, incident_events, fix_events, stopSeen, callVars >>

\* A repair timer fires: its callback issues the insert and awaits it.
TimerFire(t) ==
  /\ t \in timeouts
  /\ ~t.fired
  /\ timeouts' = (timeouts \ {t}) \cup { [t EXCEPT !.fired = TRUE] }
  /\ UNCHANGED << now, faults, prodVars, incident_events, SCHED, tickFetch, fix_events,
                  nTimers, stopSeen, callVars >>

\* insertOne into fix_events under the unique index on (simRunId, incidentId).
HasFix(coll, doc) ==
  \E i \in 1..Len(coll) :
     coll[i].simRunId = doc.simRunId /\ coll[i].incidentId = doc.incidentId

\* The insert without the unique index behind it.
insertFixEventNoIndex(coll, doc, storeFails) ==
  IF storeFails THEN [coll |-> coll, thrown |-> TRUE, inserted |-> FALSE, duplicate |-> FALSE]
  ELSE [coll |-> Append(coll, doc), thrown |-> FALSE, inserted |-> TRUE, duplicate |-> FALSE]

\* insertFixEvent: a duplicate key is reported, any other error is thrown.
insertFixEvent(coll, doc, storeFails) ==
  IF storeFails THEN [coll |-> coll, thrown |-> TRUE, inserted |-> FALSE, duplicate |-> FALSE]
  ELSE IF HasFix(coll, doc)
  THEN [coll |-> coll, thrown |-> FALSE, inserted |-> FALSE, duplicate |-> TRUE]
  ELSE [coll |-> Append(coll, doc), thrown |-> FALSE, inserted |-> TRUE, duplicate |-> FALSE]

\* Counters that take an insert that threw for a persisted repair.
insertFixAfterDelayCountsThrown(S, res) ==
  [S EXCEPT !.duplicatesIgnored = IF res.duplicate THEN @ + 1 ELSE @,
            !.persisted = IF ~res.duplicate THEN @ + 1 ELSE @]

\* insertFixAfterDelay once the insert has settled with res:
\* if (res.duplicate) duplicatesIgnored += 1; else if (res.inserted)
\* persisted += 1; an insert that threw is logged and counted nowhere.
insertFixAfterDelay(S, res) ==
  [S EXCEPT !.duplicatesIgnored = IF res.duplicate THEN @ + 1 ELSE @,
            !.persisted = IF ~res.duplicate /\ res.inserted THEN @ + 1 ELSE @]

\* The insert of a fired timer settles: insertFixAfterDelay's counters, then
\* the finally block that deletes the table entry of the incident id.
FixInsertDone(t, storeFails) ==
  /\ StoreOutcome(storeFails)
  /\ t \in timeouts
  /\ t.fired
  /\ LET res == insertFixEvent(fix_events,
                  [simRunId |-> t.simRunId, incidentId |-> t.incidentId, h |-> t.h],
                  storeFails)
     IN  /\ fix_events' = res.coll
         /\ SCHED' = [insertFixAfterDelay(SCHED, res) EXCEPT
                        !.timersByIncident =
                           IF t.incidentId \in DOMAIN @ THEN Drop(@, t.incidentId) ELSE @]
  /\ timeouts' = timeouts \ {t}
  /\ UNCHANGED << now, prodVars, incident_events, tickFetch, nTimers, stopSeen, callVars >>


\* ------------------------------------------------------------- routes.js
\* POST /start up to its first suspension: the descriptor insert of
\* startSimulator, or, when startSimulator returns at once, the scheduler
\* start with the request's repairConfig and the repair count.
PostStartCall(body, cfg) ==
  /\ nCalls' = nCalls + 1
  /\ LET id == nCalls + 1
         c == [StartPending(body, now, pending = EmptyMap) EXCEPT !.op = "postStart"]
                @@ [repairConfig |-> cfg, resp |-> NoStatus]
         seed == IF runState.params = NoParams THEN NoSeed ELSE runState.params.seed
         r == IF body.repairsEnabled
              THEN schedStart(SCHED, timeouts, runState.simRunId, seed, cfg)
              ELSE [result |-> "ok", SCHED |-> SCHED, timeouts |-> timeouts]
     IN  IF StartIsNoOp(SIM)
         THEN /\ SCHED' = r.SCHED
              /\ timeouts' = r.timeouts
              /\ UNCHANGED SIM
              /\ IF r.result = "400"
                 THEN /\ lastRet' = Ret(id, "postStart", "400", NoStatus,
                                         pending = EmptyMap, DOMAIN shards)
                      /\ UNCHANGED pending
                 ELSE IF runState.simRunId # NoRun
                 THEN /\ pending' = Put(pending, id,
                             [c EXCEPT !.pc = "countFixEvents",
                                       !.simRunId = runState.simRunId,
                                       !.resp = RouteResponse(getStatus(SIM, runState),
                                                              r.SCHED, c, FALSE)])
                      /\ UNCHANGED lastRet
                 ELSE /\ lastRet' = Ret(id, "postStart", "ok",
                                         RouteResponse(getStatus(SIM, runState), r.SCHED,
                                                       c, FALSE),
                                         pending = EmptyMap, DOMAIN shards)
                      /\ UNCHANGED pending
         ELSE IF ~validateParams(body)
         THEN /\ lastRet' = Ret(id, "postStart", "400", NoStatus, pending = EmptyMap,
                                 DOMAIN shards)
              /\ UNCHANGED << SIM, SCHED, timeouts, pending >>
         ELSE /\ SIM' = [SIM EXCEPT !.params = body]
              /\ pending' = Put(pending, id, c)
              /\ UNCHANGED << SCHED, timeouts, lastRet >>
  /\ UNCHANGED << now, faults, runState, shards, rngs, sim_runs, incident_events,
                  tickFetch, fix_events, nTimers, stopSeen >>

\* countFixEvents resolves or rejects: POST /start answers 200 with the
\* statuses it took before the count, or 500.
PostStartCountDone(id, storeFails) ==
  /\ StoreOutcome(storeFails)
  /\ id \in DOMAIN pending
  /\ pending[id].pc = "countFixEvents"
  /\ lastRet' = Ret(id, "postStart", IF storeFails THEN "500" ELSE "ok",
                    IF storeFails THEN NoStatus ELSE pending[id].resp,
                    pending[id].quiet, DOMAIN shards)
  /\ pending' = Drop(pending, id)
  /\ UNCHANGED << now, prodVars, incident_events, schedVars, nCalls >>

\* ------------------------------------------ the scheduler's API, called directly
\* The seeds of the run contexts handed to repairScheduler.start.
CtxSeeds == {1, NoSeed}

\* repairScheduler.start({simRunId, params: {seed}}, cfg); hasRun is FALSE
\* for a context without simRunId.
SchedStartCall(hasRun, seed, cfg) ==
  /\ nCalls' = nCalls + 1
  /\ LET ctxRunId == IF hasRun THEN buildSimRunId(seed, now) ELSE NoRun
         r == schedStart(SCHED, timeouts, ctxRunId, seed, cfg)
     IN  /\ SCHED' = r.SCHED
         /\ timeouts' = r.timeouts
         /\ lastRet' = Ret(nCalls + 1, "schedStart", r.result,
                           IF r.result = "ok" THEN SchedStatus(r.SCHED) ELSE NoStatus,
                           pending = EmptyMap, DOMAIN shards)
  /\ UNCHANGED << now, faults, prodVars, incident_events, tickFetch, fix_events, nTimers,
                  stopSeen, pending >>

\* repairScheduler.configure(cfg)
SchedConfigureCall(cfg) ==
  /\ nCalls' = nCalls + 1
  /\ LET r == schedConfigure(SCHED, timeouts, cfg)
     IN  /\ SCHED' = r.SCHED
         /\ timeouts' = r.timeouts
         /\ lastRet' = Ret(nCalls + 1, "schedConfigure", "ok", SchedStatus(r.SCHED),
                           pending = EmptyMap, DOMAIN shards)
  /\ UNCHANGED << now, faults, prodVars, incident_events, tickFetch, fix_events, nTimers,
                  stopSeen, pending >>

\* repairScheduler.stop() up to its first suspension.
SchedStopCall ==
  /\ nCalls' = nCalls + 1
  /\ LET sb == schedStopBegin(SCHED, timeouts)
         seen == Unfired(timeouts)
     IN  /\ SCHED' = sb.SCHED
         /\ timeouts' = sb.timeouts
         /\ IF sb.done
            THEN /\ lastRet' = Ret(nCalls + 1, "schedStop", "ok", SchedStatus(sb.SCHED),
                                  pending = EmptyMap, DOMAIN shards)
                 /\ stopSeen' = stopSeen \cup seen
                 /\ UNCHANGED pending
            ELSE /\ pending' = Put(pending, nCalls + 1,
                                   [op |-> "schedStop", pc |-> "schedStop", p |-> NoParams,
                                    simRunId |-> NoRun,
                                    early |-> FALSE, seen |-> seen,
                                    quiet |-> pending = EmptyMap, expired |-> FALSE])
                 /\ UNCHANGED << lastRet, stopSeen >>
  /\ UNCHANGED << now, faults, prodVars, incident_events, tickFetch, fix_events, nTimers >>

\* repairScheduler.stop() leaves its guard loop and returns.
SchedStopDone(id, expired) ==
  /\ id \in DOMAIN pending
  /\ pending[id].op = "schedStop"
  /\ stopGuardOver(SCHED, expired)
  /\ LET se == schedStopEnd(SCHED, timeouts)
     IN  /\ SCHED' = se.SCHED
         /\ timeouts' = se.timeouts
         /\ lastRet' = Ret(id, "schedStop", "ok", SchedStatus(se.SCHED), pending[id].quiet,
                       DOMAIN shards)
  /\ stopSeen' = stopSeen \cup pending[id].seen
  /\ pending' = Drop(pending, id)
  /\ UNCHANGED << now, faults, prodVars, incident_events, tickFetch, fix_events, nTimers, nCalls >>

\* ------------------------------------------------------ the specification
\* The continuations of the suspended calls, shards, ticks and timers.
\* Producer and scheduler together: one shard with repairs enabled, and
\* the scheduler's API called directly as well.
Next ==
  \/ ClockTick
  \/ nCalls < MaxFullCalls /\ \E body \in RepairBodies : StartCall(body)
  \/ nCalls < MaxFullCalls /\ StopCall
  \/ nCalls < MaxFullCalls /\
       \E hasRun \in BOOLEAN, seed \in CtxSeeds, cfg \in Overrides : SchedStartCall(hasRun, seed, cfg)
  \/ nCalls < MaxFullCalls /\ \E cfg \in Overrides \ {EmptyMap} : SchedConfigureCall(cfg)
  \/ nCalls < MaxFullCalls /\ SchedStopCall
  \/ \E id \in DOMAIN pending, f \in BOOLEAN : StartInsertDone(id, f)
  \/ \E w \in DOMAIN shards, f \in BOOLEAN : WorkerInsertDone(w, f)
  \/ \E w \in DOMAIN shards : WorkerWake(w)
  \/ \E id \in DOMAIN pending, e \in BOOLEAN : StopSchedDone(id, e)
  \/ \E id \in DOMAIN pending, e \in BOOLEAN : StopDrainDone(id, e)
  \/ \E id \in DOMAIN pending, f \in BOOLEAN : StopEndRunDone(id, f)
  \/ \E id \in DOMAIN pending, e \in BOOLEAN : SchedStopDone(id, e)
  \/ IntervalFire
  \/ \E f \in BOOLEAN : TickFetchDone(f, MedianBases)
  \/ \E t \in timeouts : TimerFire(t)
  \/ \E t \in timeouts, f \in BOOLEAN : FixInsertDone(t, f)

Spec == Init /\ [][Next]_vars

\* The producer alone: runs without repairs, so the scheduler stays idle.
NextProd ==
  \/ ClockTick
  \/ nCalls < MaxCalls /\ \E body \in Bodies : StartCall(body)
  \/ nCalls < MaxCalls /\ StopCall
  \/ \E id \in DOMAIN pending, f \in BOOLEAN : StartInsertDone(id, f)
  \/ \E w \in DOMAIN shards, f \in BOOLEAN : WorkerInsertDone(w, f)
  \/ \E w \in DOMAIN shards : WorkerWake(w)
  \/ \E id \in DOMAIN pending, e \in BOOLEAN : StopDrainDone(id, e)
  \/ \E id \in DOMAIN pending, f \in BOOLEAN : StopEndRunDone(id, f)

SpecProd == Init /\ [][NextProd]_vars

\* The scheduler alone, on the incidents of a run that has come and gone:
\* start({eventsPerSec: 2, batchSize: 1}) without seed or repairs, one
\* tick of two inserts, stop.
DoneBody == Body(2, 1, 10, NoSeed, 1, FALSE)
DoneRun == buildSimRunId(NoSeed, 0)
DoneSim == [SimInit EXCEPT !.params = DoneBody, !.history = <<2>>]
DoneStarted ==
  getStatus([SimInit EXCEPT !.params = DoneBody, !.running = TRUE, !.activeWorkers = 1],
            [simRunId |-> DoneRun, startedAt |-> ADate, params |-> DoneBody])

InitSched ==
  /\ now = 0
  /\ faults = 0
  /\ SIM = DoneSim
  /\ runState = RunStateInit
  /\ shards = EmptyMap
  /\ rngs = Put(EmptyMap, 1, [seed |-> NoSeed, built |-> 2, clean |-> TRUE])
  /\ sim_runs = << [simRunId |-> DoneRun, startedAt |-> ADate,
                    endedAt |-> ADate, closes |-> 1] >>
  /\ incident_events = { [id |-> i, simRunId |-> DoneRun, ts |-> 0] : i \in 1..2 }
  /\ fix_events = <<>>
  /\ SCHED = SchedInit
  /\ timeouts = {}
  /\ tickFetch = <<>>
  /\ nCalls = 2
  /\ pending = EmptyMap
  /\ lastRet = [id |-> 2, op |-> "stop", result |-> "ok",
                status |-> getStatus(DoneSim, RunStateInit), quiet |-> TRUE,
                drained |-> TRUE,
                prev |-> [id |-> 1, op |-> "start", result |-> "ok", status |-> DoneStarted]]
  /\ nTimers = 0
  /\ stopSeen = {}

NextSched ==
  \/ ClockTick
  \/ nCalls < 2 + MaxCalls /\
       \E hasRun \in BOOLEAN, seed \in CtxSeeds, cfg \in Overrides : SchedStartCall(hasRun, seed, cfg)
  \/ nCalls < 2 + MaxCalls /\ \E cfg \in Overrides \ {EmptyMap} : SchedConfigureCall(cfg)
  \/ nCalls < 2 + MaxCalls /\ SchedStopCall
  \/ \E id \in DOMAIN pending, e \in BOOLEAN : SchedStopDone(id, e)
  \/ IntervalFire
  \/ \E f \in BOOLEAN : TickFetchDone(f, MedianBases)
  \/ \E t \in timeouts : TimerFire(t)
  \/ \E t \in timeouts, f \in BOOLEAN : FixInsertDone(t, f)

SpecSched == InitSched /\ [][NextSched]_vars

\* The scheduler's stop alone: starts, stops, ticks whose query may never
\* resolve, and repair timers.  The guard loop of a suspended stop polls
\* every 15 ms and its second runs out, so a stop that may leave the loop
\* does leave it; nothing obliges a tick's query to resolve.
NextStop ==
  \/ nCalls < 2 + MaxCalls /\
       \E hasRun \in BOOLEAN, seed \in CtxSeeds : SchedStartCall(hasRun, seed, EmptyMap)
  \/ nCalls < 2 + MaxCalls /\ SchedStopCall
  \/ \E id \in DOMAIN pending, e \in BOOLEAN : SchedStopDone(id, e)
  \/ IntervalFire
  \/ \E f \in BOOLEAN : TickFetchDone(f, MedianBases)
  \/ \E t \in timeouts : TimerFire(t)
  \/ \E t \in timeouts, f \in BOOLEAN : FixInsertDone(t, f)

StopGuardRuns == \E id \in DOMAIN pending, e \in BOOLEAN : SchedStopDone(id, e)

SpecStop == InitSched /\ [][NextStop]_vars /\ WF_vars(StopGuardRuns)

\* The picker alone: two calls of deterministicPicker on the same pool of
\* 0..MaxPick candidates, each with an RNG that returns the same values,
\* every value on the grid 0..StreamDen with 1 among them.
PickerPending(rs, items) ==
  [op |-> "deterministicPicker", pc |-> "run", rngFn |-> rs, items |-> items]

InitPick ==
  \E n \in 0..MaxPick : \E rs \in [1..n -> 0..StreamDen] :
    /\ now = 0
    /\ faults = 0
    /\ SIM = SimInit
    /\ runState = RunStateInit
    /\ shards = EmptyMap
    /\ rngs = EmptyMap
    /\ sim_runs = <<>>
    /\ incident_events = {}
    /\ fix_events = <<>>
    /\ SCHED = SchedInit
    /\ timeouts = {}
    /\ tickFetch = <<>>
    /\ nCalls = 2
    /\ pending = Put(Put(EmptyMap, 1, PickerPending(rs, [i \in 1..n |-> i])),
                     2, PickerPending(rs, [i \in 1..n |-> i]))
    /\ lastRet = NoCall
    /\ nTimers = 0
    /\ stopSeen = {}

\* Call id of deterministicPicker is run to its end.
PickerRun(id) ==
  /\ id \in DOMAIN pending
  /\ pending[id].op = "deterministicPicker"
  /\ LET c == pending[id]
     IN  lastRet' = [id |-> id, op |-> c.op,
                     result |-> deterministicPicker(c.rngFn, c.items),
                     status |-> NoStatus, quiet |-> FALSE, drained |-> TRUE,
                     rngFn |-> c.rngFn, items |-> c.items,
                     prev |-> [id |-> lastRet.id, op |-> lastRet.op,
                               result |-> lastRet.result, status |-> lastRet.status]]
  /\ pending' = Drop(pending, id)
  /\ UNCHANGED << now, faults, prodVars, incident_events, schedVars, nCalls >>

NextPick == \E id \in DOMAIN pending : PickerRun(id)

SpecPick == InitPick /\ [][NextPick]_vars

\* The generator alone: makeRNG(seed) for the seeds 0..MaxSeed and OneSeed,
\* and a caller that draws Math.floor(rand() * n) from it, n in 1..MaxPick.
RngSeeds == 0..MaxSeed \cup {OneSeed}

InitRng ==
  \E seed \in RngSeeds, n \in 1..MaxPick :
    /\ now = 0
    /\ faults = 0
    /\ SIM = SimInit
    /\ runState = RunStateInit
    /\ shards = EmptyMap
    /\ rngs = EmptyMap
    /\ sim_runs = <<>>
    /\ incident_events = {}
    /\ fix_events = <<>>
    /\ SCHED = SchedInit
    /\ timeouts = {}
    /\ tickFetch = <<>>
    /\ nCalls = 1
    /\ pending = Put(EmptyMap, 1, [op |-> "rand", pc |-> "draw", seed |-> seed,
                                   s |-> SeedWord(seed), n |-> n, draws |-> 0])
    /\ lastRet = NoCall
    /\ nTimers = 0
    /\ stopSeen = {}

\* rand(): the xorshift32 step; the value returned is the new state over
\* 0xffffffff (result), and the caller's index is its floor times n.
RandDraw(id) ==
  /\ id \in DOMAIN pending
  /\ pending[id].op = "rand"
  /\ pending[id].draws < MaxDraws
  /\ LET c == pending[id]
         s1 == XorShift32(c.s)
     IN  /\ pending' = Put(pending, id, [c EXCEPT !.s = s1, !.draws = @ + 1])
         /\ lastRet' = [id |-> id, op |-> "rand", result |-> s1,
                         status |-> NoStatus, quiet |-> TRUE, drained |-> TRUE,
                         n |-> c.n, index |-> RandFloor(s1, c.n),
                         prev |-> [id |-> lastRet.id, op |-> lastRet.op,
                                   result |-> lastRet.result, status |-> lastRet.status]]
  /\ UNCHANGED << now, faults, prodVars, incident_events, schedVars, nCalls >>

NextRng == \E id \in DOMAIN pending : RandDraw(id)

SpecRng == InitRng /\ [][NextRng]_vars

\* Starts alone: start calls that may overlap at the descriptor insert, and
\* the shards they spawn; nobody calls stop.
NextStarts ==
  \/ ClockTick
  \/ nCalls < MaxFullCalls /\ \E body \in ValidBodies : StartCall(body)
  \/ \E id \in DOMAIN pending, f \in BOOLEAN : StartInsertDone(id, f)
  \/ \E w \in DOMAIN shards, f \in BOOLEAN : WorkerInsertDone(w, f)
  \/ \E w \in DOMAIN shards : WorkerWake(w)

SpecStarts == Init /\ [][NextStarts]_vars

\* The first event of a shard alone, for the seeds 0..MaxSeed and OneSeed:
\* pickCity draws once, then jitterPoint's first gaussian() runs the polar
\* rejection loop (its second one returns the spare).  The call keeps the
\* generator state the loop was entered with (s0) and the iterations that
\* rejected their pair (iters, followed up to MaxIters).
InitGauss ==
  \E seed \in RngSeeds :
    /\ now = 0
    /\ faults = 0
    /\ SIM = SimInit
    /\ runState = RunStateInit
    /\ shards = EmptyMap
    /\ rngs = EmptyMap
    /\ sim_runs = <<>>
    /\ incident_events = {}
    /\ fix_events = <<>>
    /\ SCHED = SchedInit
    /\ timeouts = {}
    /\ tickFetch = <<>>
    /\ nCalls = 1
    /\ pending = Put(EmptyMap, 1, [op |-> "firstEvent", pc |-> "pickCity", seed |-> seed,
                                   s |-> SeedWord(seed), s0 |-> NoRng, iters |-> 0])
    /\ lastRet = NoCall
    /\ nTimers = 0
    /\ stopSeen = {}

\* pickCity(SIM.model, rand): one draw.
FirstEventPickCity(id) ==
  /\ id \in DOMAIN pending
  /\ pending[id].op = "firstEvent"
  /\ pending[id].pc = "pickCity"
  /\ LET s1 == XorShift32(pending[id].s)
     IN  pending' = Put(pending, id, [pending[id] EXCEPT !.s = s1, !.s0 = s1,
                                                         !.pc = "boxMuller"])
  /\ UNCHANGED << now, faults, prodVars, incident_events, schedVars, nCalls, lastRet >>

\* One iteration of the do-while of boxMuller: two draws, then the test;
\* the loop goes round again or gaussian() returns.
BoxMullerIter(id) ==
  /\ id \in DOMAIN pending
  /\ pending[id].op = "firstEvent"
  /\ pending[id].pc = "boxMuller"
  /\ LET c == pending[id]
         a == XorShift32(c.s)
         b == XorShift32(a)
     IN  IF polarRejects(a, b)
         THEN /\ c.iters < MaxIters
              /\ pending' = Put(pending, id, [c EXCEPT !.s = b, !.iters = @ + 1])
              /\ UNCHANGED lastRet
         ELSE /\ pending' = Drop(pending, id)
              /\ lastRet' = [id |-> id, op |-> "firstEvent", result |-> "ok",
                              status |-> NoStatus, quiet |-> TRUE, drained |-> TRUE,
                              seed |-> c.seed,
                              prev |-> [id |-> lastRet.id, op |-> lastRet.op,
                                        result |-> lastRet.result, status |-> lastRet.status]]
  /\ UNCHANGED << now, faults, prodVars, incident_events, schedVars, nCalls >>

NextGauss ==
  \/ \E id \in DOMAIN pending : FirstEventPickCity(id)
  \/ \E id \in DOMAIN pending : BoxMullerIter(id)

SpecGauss == InitGauss /\ [][NextGauss]_vars

\* Refuted under SpecProd: the producer reaches the scheduler's starting state.
NotInitSched == ~InitSched


\* The rate split alone: a start with every rate R in 1..MaxRate and every
\* shard count K in 1..R is suspended at its descriptor insert.
InitSplit ==
  \E r \in 1..MaxRate : \E k \in 1..r :
    LET body == Body(r, 1000, 20, 1, k, FALSE)
    IN  /\ now = 0
        /\ faults = 0
        /\ SIM = [SimInit EXCEPT !.params = body]
        /\ runState = RunStateInit
        /\ shards = EmptyMap
        /\ rngs = EmptyMap
        /\ sim_runs = <<>>
        /\ incident_events = {}
        /\ fix_events = <<>>
        /\ SCHED = SchedInit
        /\ timeouts = {}
        /\ tickFetch = <<>>
        /\ nCalls = 1
        /\ pending = Put(EmptyMap, 1, StartPending(body, 0, TRUE))
        /\ lastRet = NoCall
        /\ nTimers = 0
        /\ stopSeen = {}

NextSplit == \E id \in DOMAIN pending, f \in BOOLEAN : StartInsertDone(id, f)

SpecSplit == InitSplit /\ [][NextSplit]_vars

\* Runs started through POST /start with repairs enabled and a
\* repairConfig, the scheduler they start, and repairScheduler.stop().
NextRoute ==
  \/ nCalls < MaxFullCalls /\
       \E body \in RepairBodies, cfg \in Overrides : PostStartCall(body, cfg)
  \/ nCalls < MaxFullCalls /\ SchedStopCall
  \/ \E id \in DOMAIN pending, f \in BOOLEAN : StartInsertDone(id, f)
  \/ \E id \in DOMAIN pending, f \in BOOLEAN : PostStartCountDone(id, f)
  \/ \E id \in DOMAIN pending, e \in BOOLEAN : SchedStopDone(id, e)
  \/ \E w \in DOMAIN shards, f \in BOOLEAN : WorkerInsertDone(w, f)
  \/ \E w \in DOMAIN shards : WorkerWake(w)
  \/ IntervalFire
  \/ \E f \in BOOLEAN : TickFetchDone(f, MedianBases)
  \/ \E t \in timeouts : TimerFire(t)
  \/ \E t \in timeouts, f \in BOOLEAN : FixInsertDone(t, f)

SpecRoute == Init /\ [][NextRoute]_vars

\* The batch loop alone: one shard whose target is every rate R in
\* 1..MaxRate, with every batch size B in 1..MaxBatch, from the start that
\* spawns it on.
InitTick ==
  \E r \in 1..MaxRate : \E b \in 1..MaxBatch :
    LET body == Body(r, b, 20, 1, 1, FALSE)
    IN  /\ now = 0
        /\ faults = 0
        /\ SIM = [SimInit EXCEPT !.params = body]
        /\ runState = RunStateInit
        /\ shards = EmptyMap
        /\ rngs = EmptyMap
        /\ sim_runs = <<>>
        /\ incident_events = {}
        /\ fix_events = <<>>
        /\ SCHED = SchedInit
        /\ timeouts = {}
        /\ tickFetch = <<>>
        /\ nCalls = 1
        /\ pending = Put(EmptyMap, 1, StartPending(body, 0, TRUE))
        /\ lastRet = NoCall
        /\ nTimers = 0
        /\ stopSeen = {}

NextTick ==
  \/ \E id \in DOMAIN pending, f \in BOOLEAN : StartInsertDone(id, f)
  \/ \E w \in DOMAIN shards, f \in BOOLEAN : WorkerInsertDone(w, f)
  \/ \E w \in DOMAIN shards : WorkerWake(w)

SpecTick == InitTick /\ [][NextTick]_vars

\* The moving average alone: the producer at rest after a run, with every
\* history of up to MaxHistLen entries in 1..MaxEntry, asked for its status
\* by stop calls.
InitMA ==
  \E n \in 0..MaxHistLen : \E h \in [1..n -> 1..MaxEntry] :
    LET S == [DoneSim EXCEPT !.history = h]
    IN  /\ now = 0
        /\ faults = 0
        /\ SIM = S
        /\ runState = RunStateInit
        /\ shards = EmptyMap
        /\ rngs = Put(EmptyMap, 1, [seed |-> NoSeed, built |-> 2, clean |-> TRUE])
        /\ sim_runs = << [simRunId |-> DoneRun, startedAt |-> ADate,
                          endedAt |-> ADate, closes |-> 1] >>
        /\ incident_events = { [id |-> i, simRunId |-> DoneRun, ts |-> 0] : i \in 1..2 }
        /\ fix_events = <<>>
        /\ SCHED = SchedInit
        /\ timeouts = {}
        /\ tickFetch = <<>>
        /\ nCalls = 2
        /\ pending = EmptyMap
        /\ lastRet = [id |-> 2, op |-> "stop", result |-> "ok",
                      status |-> getStatus(S, RunStateInit), quiet |-> TRUE,
                      drained |-> TRUE,
                      prev |-> [id |-> 1, op |-> "start", result |-> "ok",
                                status |-> DoneStarted]]
        /\ nTimers = 0
        /\ stopSeen = {}

NextMA == nCalls < 2 + MaxCalls /\ StopCall

SpecMA == InitMA /\ [][NextMA]_vars

\* The producer over every catalog of 0..MaxCities locations that
\* initSimulator may have loaded.
InitCatalog ==
  \E n \in 0..MaxCities :
    /\ now = 0
    /\ faults = 0
    /\ SIM = [SimInit EXCEPT !.cityModelSize = n]
    /\ runState = RunStateInit
    /\ shards = EmptyMap
    /\ rngs = EmptyMap
    /\ sim_runs = <<>>
    /\ incident_events = {}
    /\ fix_events = <<>>
    /\ SCHED = SchedInit
    /\ timeouts = {}
    /\ tickFetch = <<>>
    /\ nCalls = 0
    /\ pending = EmptyMap
    /\ lastRet = NoCall
    /\ nTimers = 0
    /\ stopSeen = {}

NextCatalog ==
  \/ nCalls < MaxFullCalls /\ \E body \in ValidBodies : StartCall(body)
  \/ nCalls < MaxFullCalls /\ StopCall
  \/ \E id \in DOMAIN pending, f \in BOOLEAN : StartInsertDone(id, f)
  \/ \E w \in DOMAIN shards, f \in BOOLEAN : WorkerInsertDone(w, f)
  \/ \E w \in DOMAIN shards : WorkerWake(w)
  \/ \E id \in DOMAIN pending, e \in BOOLEAN : StopDrainDone(id, e)
  \/ \E id \in DOMAIN pending, f \in BOOLEAN : StopEndRunDone(id, f)

SpecCatalog == InitCatalog /\ [][NextCatalog]_vars

\* The scheduler under every budgetPerTick in -1..MaxBudget, on the MaxPool
\* recent incidents of a run that has come and gone:
\* start({eventsPerSec: MaxPool, batchSize: MaxPool, seed: 1}), one tick of
\* one insert, stop.
BudgetBody == Body(MaxPool, MaxPool, 10, 1, 1, FALSE)
BudgetRun == buildSimRunId(1, 0)
BudgetSim == [SimInit EXCEPT !.params = BudgetBody, !.history = <<MaxPool>>]
BudgetStarted ==
  getStatus([SimInit EXCEPT !.params = BudgetBody, !.running = TRUE, !.activeWorkers = 1],
            [simRunId |-> BudgetRun, startedAt |-> ADate, params |-> BudgetBody])
BudgetOverrides == { [k \in {"budgetPerTick"} |-> b] : b \in (0 - 1)..MaxBudget }

InitBudget ==
  /\ now = 0
  /\ faults = 0
  /\ SIM = BudgetSim
  /\ runState = RunStateInit
  /\ shards = EmptyMap
  /\ rngs = Put(EmptyMap, 1, [seed |-> 1, built |-> MaxPool, clean |-> TRUE])
  /\ sim_runs = << [simRunId |-> BudgetRun, startedAt |-> ADate,
                    endedAt |-> ADate, closes |-> 1] >>
  /\ incident_events = { [id |-> i, simRunId |-> BudgetRun, ts |-> 0] : i \in 1..MaxPool }
  /\ fix_events = <<>>
  /\ SCHED = SchedInit
  /\ timeouts = {}
  /\ tickFetch = <<>>
  /\ nCalls = 2
  /\ pending = EmptyMap
  /\ lastRet = [id |-> 2, op |-> "stop", result |-> "ok",
                status |-> getStatus(BudgetSim, RunStateInit),
                quiet |-> TRUE, drained |-> TRUE,
                prev |-> [id |-> 1, op |-> "start", result |-> "ok", status |-> BudgetStarted]]
  /\ nTimers = 0
  /\ stopSeen = {}

NextBudget ==
  \/ nCalls < 2 + MaxFullCalls /\ \E cfg \in BudgetOverrides : SchedStartCall(TRUE, 1, cfg)
  \/ nCalls < 2 + MaxFullCalls /\ \E cfg \in BudgetOverrides : SchedConfigureCall(cfg)
  \/ IntervalFire
  \/ \E f \in BOOLEAN : TickFetchDone(f, MedianBases)
  \/ \E t \in timeouts : TimerFire(t)
  \/ \E t \in timeouts, f \in BOOLEAN : FixInsertDone(t, f)

SpecBudget == InitBudget /\ [][NextBudget]_vars

\* The delay calculation: the scheduler under the caps 0, MaxCap and BigSec
\* and budgets 1..MaxBudget, its ticks taking every pair of samples among
\* 1, MaxBase and BigSec.
DelayOverrides ==
  { [budgetPerTick |-> b, maxDelaySec |-> c] : b \in 1..MaxBudget, c \in {0, MaxCap, BigSec} }
DelayBases == [1..2 -> {1, MaxBase, BigSec}]

NextDelay ==
  \/ nCalls < 2 + MaxFullCalls /\ \E cfg \in DelayOverrides : SchedStartCall(TRUE, 1, cfg)
  \/ nCalls < 2 + MaxFullCalls /\ \E cfg \in DelayOverrides : SchedConfigureCall(cfg)
  \/ IntervalFire
  \/ \E f \in BOOLEAN, bases \in DelayBases : TickFetchDone(f, bases)
  \/ \E t \in timeouts : TimerFire(t)
  \/ \E t \in timeouts, f \in BOOLEAN : FixInsertDone(t, f)

SpecDelay == InitBudget /\ [][NextDelay]_vars

\* ------------------------------------------------------------ properties

\* C1: the repair store never holds two repair records with the same
\* (runId, incidentId), whatever the interleaving of ticks, timer firings,
\* configure calls and stop/start of the scheduler.
C1OneFixPerIncident ==
  \A i \in 1..Len(fix_events) : \A j \in 1..Len(fix_events) :
     (fix_events[i].simRunId = fix_events[j].simRunId
        /\ fix_events[i].incidentId = fix_events[j].incidentId) => i = j

\* A second insert for a stored (runId, incidentId) was attempted and the
\* store refused it.
C1DuplicateRefused ==
  /\ SCHED.duplicatesIgnored > 0
  /\ Len(fix_events) > 0

\* C2: once stop() has returned, no repair record is inserted for a timer
\* that had not fired when that stop was called, and no such timer fires.
C2NoRepairAfterStop ==
  [][ /\ \A i \in 1..Len(fix_events') :
           i > Len(fix_events) => fix_events'[i].h \notin stopSeen
      /\ \A t \in timeouts' \ timeouts : ~(t.fired /\ t.h \in stopSeen) ]_vars

\* C3: a producer start issued while a run is running is a no-op: no run
\* descriptor is persisted, no shard is spawned, the history and the RNG
\* are left alone, and status reports the same runId before and after.
C3StartWhileRunningIsNoOp ==
  [][ \A body \in Bodies :
        (SIM.running /\ StartCall(body)) =>
          /\ UNCHANGED << sim_runs, shards, rngs, SIM, runState, pending >>
          /\ lastRet'.result = "ok"
          /\ lastRet'.status.simRunId = runState.simRunId
          /\ getStatus(SIM', runState').simRunId = getStatus(SIM, runState).simRunId ]_vars

\* A start returned the running run's status without spawning anything.
C3StartReturnedRunning ==
  /\ lastRet.op = "start" /\ lastRet.result = "ok"
  /\ lastRet.id \notin DOMAIN rngs
  /\ lastRet.status.running
  /\ Len(sim_runs) = 1

C6InvalidStartRejected ==
  [][ \A body \in InvalidBodies :
        StartCall(body) =>
          /\ lastRet'.id = nCalls + 1 /\ lastRet'.result = "400"
          /\ UNCHANGED << SIM, runState, shards, rngs, sim_runs, incident_events,
                          fix_events, pending >> ]_vars

\* C7: a start for a different run while a run is active, whether on the
\* producer (different parameters) or on the scheduler (different runId), is
\* rejected with an error and leaves the active run untouched.
C7OtherRunRejected ==
  [][ /\ \A body \in Bodies :
           (SIM.running /\ body # SIM.params /\ StartCall(body)) =>
             /\ lastRet'.result # "ok"
             /\ UNCHANGED << SIM, runState, shards, rngs, sim_runs >>
      /\ \A seed \in CtxSeeds, cfg \in Overrides :
           (SCHED.state = "running" /\ buildSimRunId(seed, now) # SCHED.simRunId
              /\ SchedStartCall(TRUE, seed, cfg)) =>
             /\ lastRet'.result # "ok"
             /\ UNCHANGED << SCHED, timeouts >> ]_vars

\* C8: a start with valid parameters, issued when no call is in flight and
\* no run is active, with the store answering, succeeds and persists exactly
\* one descriptor under a runId no earlier run had.
C8StartEstablishesNewRun ==
  [][ \A id \in DOMAIN pending :
        (pending[id].op = "start" /\ pending[id].quiet /\ id = nCalls
           /\ shards = EmptyMap /\ StartInsertDone(id, FALSE)) =>
          /\ lastRet'.id = id /\ lastRet'.result = "ok"
          /\ ~HasSimRun(sim_runs, pending[id].simRunId)
          /\ Cardinality({ i \in 1..Len(sim_runs') :
                             sim_runs'[i].simRunId = pending[id].simRunId }) = 1 ]_vars

\* C9: every run descriptor is written closed at most once, and once every
\* call has returned with the producer stopped and no store operation has
\* failed, no descriptor is open.
C9DescriptorClosedOnce ==
  \A i \in 1..Len(sim_runs) :
     /\ sim_runs[i].closes <= 1
     /\ (faults = 0 /\ pending = EmptyMap /\ ~SIM.running /\ lastRet.op = "stop") =>
           sim_runs[i].endedAt # NoTime

\* C10: for 1 <= K <= R the shard targets are floor(R/K) plus one for each of
\* the first R mod K shards; they sum to R and each is at least 1 (R = 10, K = 3
\* gives 4, 3, 3).
C10ShardTargets ==
  shards # EmptyMap =>
    LET R == SIM.params.eventsPerSec
        K == SIM.params.concurrency
        t == [i \in 1..K |-> shards[ShardId(1, i)].eps]
    IN  /\ 1 <= K /\ K <= R
        /\ DOMAIN shards = { ShardId(1, i) : i \in 1..K }
        /\ \A i \in 1..K : t[i] = (R \div K) + (IF i <= R % K THEN 1 ELSE 0)
        /\ SumSeq(t) = R
        /\ \A i \in 1..K : t[i] >= 1
        /\ (R = 10 /\ K = 3) => t = <<4, 3, 3>>

\* The shards of a start with R = 10 and K = 3 exist, with targets 4, 3, 3.
C10TenByThree ==
  /\ SIM.params.eventsPerSec = 10 /\ SIM.params.concurrency = 3
  /\ DOMAIN shards = { ShardId(1, i) : i \in 1..3 }
  /\ << shards[ShardId(1, 1)].eps, shards[ShardId(1, 2)].eps, shards[ShardId(1, 3)].eps >>
       = <<4, 3, 3>>

\* C11: one shard tick with target r and batch size B issues exactly
\* max(1, ceil(r / B)) bulk inserts, each of 1..B documents, every one but
\* the last of exactly B, and their sizes sum to r.
C11TickBatches ==
  [][ \A w \in DOMAIN shards :
        (shards[w].pc = "insert" /\ w \in DOMAIN shards'
           /\ shards'[w].insertedThisTick # shards[w].insertedThisTick) =>
          LET sh == shards[w]
              r == sh.eps
              B == sh.batchSize
              size == shards'[w].insertedThisTick - sh.insertedThisTick
          IN  /\ size >= 1 /\ size <= B
              /\ faults' = faults =>
                    Cardinality(incident_events') = Cardinality(incident_events) + size
              /\ shards'[w].pc = "insert" =>
                    /\ size = B
                    /\ shards'[w].b = sh.b + 1
                    /\ shards'[w].b * B < r
              /\ shards'[w].pc = "sleep" =>
                    /\ (sh.b + 1) * B >= r
                    /\ sh.b = 0 \/ sh.b * B < r
                    /\ shards'[w].insertedThisTick = r
                    /\ SIM'.history = Append(SIM.history, r) ]_vars

\* A tick of several batches has ended on a truncated one.
C11TruncatedLastBatch ==
  \E w \in DOMAIN shards :
     /\ shards[w].pc = "sleep"
     /\ shards[w].eps > shards[w].batchSize
     /\ shards[w].eps % shards[w].batchSize # 0
     /\ shards[w].insertedThisTick = shards[w].eps
     /\ shards[w].b + 1 = Batches(shards[w].eps, shards[w].batchSize)

\* C12: each entry of the rolling history is the number of records inserted
\* across all K shards during one tick, so that while the inserts of a run
\* all succeed every entry, and with it the moving average that status
\* reports, equals the run's aggregate rate R, for any K >= 1.  Read once
\* every shard of the run has finished a tick.
C12HistoryIsAggregate ==
  (/\ Len(sim_runs) = 1 /\ faults = 0 /\ runState.simRunId # NoRun
   /\ SIM.running /\ SIM.history # <<>>
   /\ \A w \in DOMAIN shards : shards[w].pc = "sleep") =>
     /\ \A i \in 1..Len(SIM.history) : SIM.history[i] = runState.params.eventsPerSec
     /\ getStatus(SIM, runState).insertsPerSecMA = runState.params.eventsPerSec

\* C13: the moving average that status reports is 0 for an empty history,
\* v for a history holding the single value v, and otherwise the mean of the
\* last min(len, W) entries rounded to the nearest integer; entries older
\* than the last W have no part in it.
C13MovingAverage ==
  (lastRet.op = "stop" /\ lastRet.id > 2) =>
     LET h == SIM.history
         ma == lastRet.status.insertsPerSecMA
         len == IF Len(h) < STATUS_WINDOW_SEC THEN Len(h) ELSE STATUS_WINDOW_SEC
         sum == SumSeq([i \in 1..len |-> h[Len(h) - len + i]])
     IN  /\ Len(h) = 0 => ma = 0
         /\ Len(h) = 1 => ma = h[1]
         /\ Len(h) > 0 => (2 * len * ma <= 2 * sum + len /\ 2 * sum + len < 2 * len * (ma + 1))

\* Status was read over a history longer than the window whose oldest entry
\* would have pulled the average of the whole history down a unit.
C13OldEntryLeftOut ==
  /\ lastRet.op = "stop" /\ lastRet.id > 2
  /\ Len(SIM.history) > STATUS_WINDOW_SEC
  /\ 2 * SumSeq(SIM.history) + Len(SIM.history)
       < 2 * Len(SIM.history) * lastRet.status.insertsPerSecMA

\* C14: the scheduler's state changes only along idle -> running (start),
\* running -> stopping (stop) and stopping -> idle (stop completes).  A stop
\* that finds no tick in flight goes through stopping to idle within one
\* turn of the event loop, which is one step here.
C14StateTransitions ==
  [][ SCHED'.state # SCHED.state =>
        \/ SCHED.state = "idle" /\ SCHED'.state = "running"
        \/ SCHED.state = "running" /\ SCHED'.state = "stopping"
        \/ SCHED.state = "stopping" /\ SCHED'.state = "idle"
        \/ /\ SCHED.state = "running" /\ SCHED'.state = "idle"
           /\ SchedStopCall \/ StopCall ]_vars

\* C15: repairScheduler.start with a run context that has no runId fails
\* with status 400 and leaves the scheduler's state, settings, RNG,
\* counters, interval and timer table as they were.
C15MissingRunIdRejected ==
  [][ \A seed \in CtxSeeds, cfg \in Overrides :
        SchedStartCall(FALSE, seed, cfg) =>
          /\ lastRet'.op = "schedStart" /\ lastRet'.result = "400"
          /\ UNCHANGED << SCHED, timeouts, tickFetch, fix_events, nTimers >> ]_vars

\* A start without runId was refused by a running scheduler that holds
\* repair timers.
C15RefusedWhileRunning ==
  /\ lastRet.op = "schedStart" /\ lastRet.result = "400"
  /\ SCHED.state = "running" /\ SCHED.timersByIncident # EmptyMap

\* C16: repairScheduler.start on the runId the scheduler is running on is
\* a no-op that returns the current status: settings, RNG position,
\* counters, interval and pending repair timers are unchanged.
C16SameRunStartIsNoOp ==
  [][ \A seed \in CtxSeeds, cfg \in Overrides :
        (/\ SCHED.state = "running"
         /\ buildSimRunId(seed, now) = SCHED.simRunId
         /\ SchedStartCall(TRUE, seed, cfg)) =>
          /\ lastRet'.op = "schedStart" /\ lastRet'.result = "ok"
          /\ lastRet'.status = SchedStatus(SCHED)
          /\ UNCHANGED << SCHED, timeouts, tickFetch, fix_events, nTimers >> ]_vars

\* A start returned the status of a scheduler that had already scheduled
\* repairs and still holds their timers: it was not restarted.
C16StartReturnedRunningStatus ==
  /\ lastRet.op = "schedStart" /\ lastRet.result = "ok"
  /\ lastRet.status.scheduled > 0 /\ lastRet.status.activeTimers > 0
  /\ lastRet.status = SchedStatus(SCHED)

\* C17: a repair timer is scheduled, and a repair record persisted, only
\* for incidents whose issue category is infrastructure; an incident of any
\* other category is never selected by a tick.
C17OnlyInfrastructureRepaired ==
  /\ \A t \in timeouts : serviceIssue(t.incidentId).category = "infrastructure"
  /\ \A i \in 1..Len(fix_events) :
        serviceIssue(fix_events[i].incidentId).category = "infrastructure"

\* C18: within one run an incident is registered for repair at most once:
\* a tick creates a timer for an incident only if the run has no timer for
\* it, pending or in flight, and has not persisted a repair from an earlier
\* timer of it.
C18OneRegistrationPerIncident ==
  [][ \A t \in timeouts' :
        t.h > nTimers =>
          /\ ~ \E u \in timeouts :
                 u.simRunId = t.simRunId /\ u.incidentId = t.incidentId
          /\ ~ \E i \in 1..Len(fix_events) :
                 /\ fix_events[i].simRunId = t.simRunId
                 /\ fix_events[i].incidentId = t.incidentId ]_vars

\* C20: a repairScheduler.start that is not a no-op reseeds the scheduler's
\* RNG from the run's seed, and from the fixed constant 0xC0FFEE when the
\* run has no seed.
C20ReseedsFromRunSeed ==
  [][ \A seed \in CtxSeeds, cfg \in Overrides :
        (/\ ~(SCHED.state = "running" /\ SCHED.simRunId = buildSimRunId(seed, now))
         /\ SchedStartCall(TRUE, seed, cfg)) =>
          SCHED'.rngFn = SeedWord(IF seed = NoSeed THEN C0FFEE ELSE seed) ]_vars

\* C19: a call-site override wins over the configured default: when POST
\* /start with repairsEnabled and a repairConfig has established a run, the
\* scheduler it answers with runs on every value the repairConfig supplied.
C19OverrideTakesEffect ==
  (/\ lastRet.op = "postStart" /\ lastRet.result = "ok" /\ lastRet.quiet
   /\ lastRet.status.started
   /\ lastRet.status.simulator.params.repairsEnabled) =>
     /\ lastRet.status.scheduler.state = "running"
     /\ \A k \in DOMAIN lastRet.status.repairConfig :
           lastRet.status.scheduler.cfg[k] = lastRet.status.repairConfig[k]

\* C21: a stop cancels the scheduler before it signals the shards: in the
\* step that clears the running flag and invokes the shard cancel handles,
\* the scheduler's interval and its delay timers have been cleared.
C21SchedulerCancelledFirst ==
  [][ (SIM.running /\ ~SIM'.running) =>
        /\ ~SCHED'.timer
        /\ SCHED'.timersByIncident = EmptyMap
        /\ \A t \in timeouts' : t.fired ]_vars

\* C22: a start whose descriptor insert fails returns an error and leaves
\* no trace: the producer is not running, status reports the parameters and
\* the run identity it reported before the call, no shard of the call
\* exists and the scheduler is idle.  Read when the call was issued with no
\* other call in flight, first or directly after a stop.
C22FailedStartHasNoEffect ==
  (/\ lastRet.op = "start" /\ lastRet.result = "500" /\ lastRet.quiet
   /\ lastRet.id = nCalls /\ pending = EmptyMap
   /\ lastRet.prev.id = lastRet.id - 1
   /\ lastRet.prev.id = 0 \/ (lastRet.prev.op = "stop" /\ lastRet.prev.result = "ok")) =>
     LET before == IF lastRet.prev.id = 0 THEN getStatus(SimInit, RunStateInit)
                   ELSE lastRet.prev.status
         after == getStatus(SIM, runState)
     IN  /\ ~after.running
         /\ after.params = before.params
         /\ after.simRunId = NoRun
         /\ lastRet.id \notin DOMAIN rngs
         /\ \A w \in DOMAIN shards : shards[w].gen # lastRet.id
         /\ SCHED.state = "idle"

\* C23: with an empty catalog loaded every start fails with a resource
\* error: no run descriptor is persisted, no shard is spawned and the
\* running flag stays false.
C23EmptyCatalogFailsStart ==
  SIM.cityModelSize = 0 =>
    /\ ~SIM.running
    /\ sim_runs = <<>>
    /\ shards = EmptyMap
    /\ lastRet.op = "start" => lastRet.result = "500"

\* C24: with a seed, the RNG draws behind each shard's events do not depend
\* on how the shards interleave: a shard whose tick is one batch builds, in
\* every tick, the same slice of the tick's R events, so the events drawn
\* from the run's stream before it number a multiple of R plus the targets
\* of the shards spawned before it.
C24ShardDrawsFixed ==
  [][ \A w \in DOMAIN shards :
        LET sh == shards[w]
            R == runState.params.eventsPerSec
            K == runState.params.concurrency
            i == w - sh.gen * MAX_CONCURRENCY
            before == SumSeq([j \in 1..(i - 1) |-> targetEps(R, K, j - 1)])
        IN  (/\ sh.pc = "sleep" /\ w \in DOMAIN shards' /\ shards'[w].pc = "insert"
             /\ Len(sim_runs) = 1 /\ rngs[sh.gen].seed # NoSeed
             /\ R <= K * sh.batchSize) =>
              rngs[sh.gen].built % R = before ]_vars

\* C25: at most one tick executes at a time: the reentrancy guard is set for
\* as long as a tick's query is in flight, and a tick invoked while the guard
\* is set or the state is not running returns at once: it issues no query,
\* draws nothing from the RNG, changes no counter and creates no timer.
C25OverlappingTickDropped ==
  [][ /\ tickFetch # <<>> => SCHED.ticking
      /\ ((SCHED.ticking \/ SCHED.state # "running") /\ IntervalFire) =>
            /\ UNCHANGED << SCHED, timeouts, nTimers, fix_events, incident_events >>
            /\ tickFetch' # tickFetch =>
                  /\ tickFetch # <<>>
                  /\ tickFetch' = [tickFetch EXCEPT !.overlapped = TRUE] ]_vars

\* The interval fired on a running scheduler while a tick's query was in
\* flight, and the tick it invoked was turned away.
C25TickTurnedAway ==
  /\ tickFetch # <<>> /\ tickFetch.overlapped
  /\ SCHED.state = "running" /\ SCHED.ticking

C27TimerOutcomeCounted ==
  [][ \A t \in timeouts :
        (t.fired /\ t \notin timeouts') =>
          LET dup == \E i \in 1..Len(fix_events) :
                        /\ fix_events[i].simRunId = t.simRunId
                        /\ fix_events[i].incidentId = t.incidentId
              stored == /\ faults' = faults /\ ~dup
                        /\ Len(fix_events') = Len(fix_events) + 1
                        /\ fix_events'[Len(fix_events')].incidentId = t.incidentId
                        /\ fix_events'[Len(fix_events')].simRunId = t.simRunId
                        /\ SCHED'.persisted = SCHED.persisted + 1
                        /\ SCHED'.duplicatesIgnored = SCHED.duplicatesIgnored
              refused == /\ faults' = faults /\ dup
                         /\ fix_events' = fix_events
                         /\ SCHED'.persisted = SCHED.persisted
                         /\ SCHED'.duplicatesIgnored = SCHED.duplicatesIgnored + 1
              failed == /\ faults' = faults + 1
                        /\ fix_events' = fix_events
                        /\ SCHED'.persisted = SCHED.persisted
                        /\ SCHED'.duplicatesIgnored = SCHED.duplicatesIgnored
          IN  /\ stored \/ refused \/ failed
              /\ timeouts' = timeouts \ {t}
              /\ nTimers' = nTimers
              /\ t.incidentId \notin DOMAIN SCHED'.timersByIncident ]_vars

\* The one repair timer of a scheduler start has fired and its insert has
\* failed: nothing is stored or counted, and the timer table is empty.
C27FailedInsertDropped ==
  /\ nCalls = 3 /\ lastRet.op = "schedStart"
  /\ nTimers = 1 /\ SCHED.scheduled = 1 /\ timeouts = {}
  /\ faults = 1 /\ tickFetch = <<>> /\ SCHED.ticks >= 1
  /\ fix_events = <<>>
  /\ SCHED.persisted = 0 /\ SCHED.duplicatesIgnored = 0
  /\ SCHED.timersByIncident = EmptyMap

\* C28 as stated: every delay a tick hands to a repair timer satisfies
\* 1 <= delaySec <= maxDelaySec and delayMs = min(delaySec * 1000, 2147483647),
\* whatever the sample, the jitter and the settings.
C28DelayWithinBounds ==
  [][ \A t \in timeouts' \ timeouts :
        t.h > nTimers =>
          /\ 1 <= t.delaySec /\ t.delaySec <= SCHED'.cfg.maxDelaySec
          /\ t.delayMs <= INT32_MAX
          /\ t.delayMs < INT32_MAX => t.delayMs = t.delaySec * 1000
          /\ t.delayMs = INT32_MAX => t.delaySec > INT32_MAX \div 1000 ]_vars

\* C28 amended: every delay a tick hands to a repair timer is
\* delaySec = min(max(1, base + jitter), maxDelaySec), so that
\* 1 <= delaySec <= maxDelaySec when maxDelaySec >= 1 and delaySec =
\* maxDelaySec when maxDelaySec < 1, with delayMs = min(delaySec * 1000,
\* 2147483647), for integer samples and settings.
C28DelayCapped ==
  [][ \A t \in timeouts' \ timeouts :
        t.h > nTimers =>
          LET cap == SCHED'.cfg.maxDelaySec
          IN  /\ t.delaySec <= cap
              /\ cap >= 1 => t.delaySec >= 1
              /\ cap < 1 => t.delaySec = cap
              /\ t.delayMs <= INT32_MAX
              /\ t.delayMs < INT32_MAX => t.delayMs = t.delaySec * 1000
              /\ t.delayMs = INT32_MAX => t.delaySec > INT32_MAX \div 1000 ]_vars

\* A repair timer was created for a delay of more seconds than 32 bits hold
\* milliseconds: its delayMs is the platform maximum.
C28PlatformClamp ==
  \E t \in timeouts :
     /\ t.delaySec > INT32_MAX \div 1000
     /\ t.delaySec <= SCHED.cfg.maxDelaySec
     /\ t.delayMs = INT32_MAX

\* C29: a bulk insert the store rejects is swallowed by the shard.  The step
\* on which an insertMany of shard w fails leaves w in the shard table with
\* its alive flag as it was and SIM.running as it was, adds the whole batch
\* to insertedThisTick, and either builds the next batch of the tick or,
\* after the last batch, pushes the tick's count (failed batches included)
\* onto the history and sleeps; and a shard whose tick had a failed insert
\* wakes into its next tick whenever the run is still on.
C29InsertErrorSwallowed ==
  [][\A w \in DOMAIN shards :
       LET sh == shards[w]
           size == BatchSizeAt(sh.eps, sh.batchSize, sh.b)
           more == sh.b + 1 < Batches(sh.eps, sh.batchSize)
       IN  /\ WorkerInsertDone(w, TRUE) =>
                /\ w \in DOMAIN shards'
                /\ SIM'.running = SIM.running
                /\ shards'[w].alive = sh.alive
                /\ shards'[w].insertedThisTick = sh.insertedThisTick + size
                /\ incident_events' = incident_events
                /\ IF more
                   THEN /\ shards'[w].pc = "insert"
                        /\ shards'[w].b = sh.b + 1
                        /\ SIM'.history = SIM.history
                   ELSE /\ shards'[w].pc = "sleep"
                        /\ SIM'.history # <<>>
                        /\ SIM'.history[Len(SIM'.history)] = sh.insertedThisTick + size
           /\ (sh.failed /\ SIM.running /\ sh.alive /\ WorkerWake(w)) =>
                /\ w \in DOMAIN shards'
                /\ shards'[w].pc = "insert"
                /\ shards'[w].b = 0
                /\ SIM'.running]_vars

\* A running shard sleeps after a tick in which an insert failed: the
\* history's newest entry counts more events than the store holds.
C29FailedTickCounted ==
  \E w \in DOMAIN shards :
    /\ shards[w].failed
    /\ shards[w].pc = "sleep"
    /\ shards[w].alive
    /\ SIM.running
    /\ SIM.history # <<>>
    /\ SIM.history[Len(SIM.history)] = shards[w].insertedThisTick
    /\ Cardinality(incident_events) < shards[w].insertedThisTick

\* C30: a tick whose recent-incidents query fails is skipped.  The step on
\* which the query rejects schedules no timer, releases the reentrancy
\* guard and changes nothing else of the scheduler, so a scheduler in state
\* running stays running with its interval armed; and the next firing of
\* the interval passes the guard, sets it and issues the query again.
C30FailedQuerySkipsTick ==
  [][/\ TickFetchDone(TRUE, MedianBases) =>
          /\ timeouts' = timeouts
          /\ nTimers' = nTimers
          /\ ~SCHED'.ticking
          /\ SCHED' = [SCHED EXCEPT !.ticking = FALSE]
          /\ tickFetch' = <<>>
          /\ SCHED.state = "running" =>
               /\ SCHED'.state = "running"
               /\ SCHED'.timer
               /\ ~tickReturnsAtOnce(SCHED')
     /\ (IntervalFire /\ SCHED.state = "running" /\ ~SCHED.ticking) =>
          /\ SCHED'.ticking
          /\ SCHED'.state = "running"
          /\ tickFetch' = [simRunId |-> SCHED.simRunId,
                           limit |-> SCHED.cfg.budgetPerTick * 5,
                           since |-> now * ClockUnitSec - SCHED.cfg.recentWindowSec,
                           overlapped |-> FALSE]]_vars

\* The scheduler was started once, the only store operation so far was a
\* tick's query and it failed (no timer was ever created, no tick was
\* counted), and the next firing of the interval has issued the query
\* again.
C30NextTickAfterFailedQuery ==
  /\ nCalls = 3
  /\ faults = 1
  /\ nTimers = 0
  /\ fix_events = <<>>
  /\ SCHED.state = "running"
  /\ SCHED.ticks = 0
  /\ SCHED.ticking
  /\ tickFetch # <<>>

\* C31: a repairScheduler.stop() that found the scheduler busy is followed
\* by state idle, whether or not the tick in flight ever completes; and
\* every step that takes the scheduler to idle leaves the interval cleared
\* and the timer table empty.
C31StopReachesIdle ==
  /\ (\E id \in DOMAIN pending : pending[id].op = "schedStop") ~> (SCHED.state = "idle")
  /\ (SCHED.state = "stopping") ~> (SCHED.state = "idle")
  /\ [][(SCHED.state # "idle" /\ SCHED'.state = "idle") =>
          /\ ~SCHED'.timer
          /\ SCHED'.timersByIncident = EmptyMap
          /\ \A t \in timeouts' : t.fired]_vars

\* A stop has returned with the scheduler idle while the query of the tick
\* it waited for is still outstanding.
C31IdleWithTickInFlight ==
  /\ SCHED.state = "idle"
  /\ SCHED.ticking
  /\ tickFetch # <<>>
  /\ lastRet.op = "schedStop"
  /\ pending = EmptyMap
  /\ ~SCHED.timer
  /\ SCHED.timersByIncident = EmptyMap

C33UniformBelowOne ==
  lastRet.op = "rand" =>
    /\ lastRet.result # AllOnes
    /\ lastRet.index \in 0..(lastRet.n - 1)

\* C34: start calls that overlap establish at most one run.  While nobody
\* has called stop, at most K shard loops are alive (K the concurrency of
\* the run in the run state), at most one run descriptor is open, and
\* every live shard stamps the runId the run state holds.
C34OverlappingStartsOneRun ==
  /\ Cardinality(DOMAIN shards)
       <= (IF runState.simRunId = NoRun THEN 0 ELSE runState.params.concurrency)
  /\ Cardinality({ i \in 1..Len(sim_runs) : sim_runs[i].endedAt = NoTime }) <= 1
  /\ \A w \in DOMAIN shards : shards[w].simRunId = runState.simRunId

\* C35: a stop still waiting in its drain guard does not undo a start.
\* Once a start issued after that stop was called has returned with
\* running = true, and until another call is made, no step changes the
\* runId the run state holds (the one the start returned).
C35StartNotUndoneByStop ==
  [][\A id \in DOMAIN pending :
       (/\ pending[id].op = "stop"
        /\ pending[id].pc \in {"drain", "endSimRun"}
        /\ lastRet.op = "start"
        /\ lastRet.result = "ok"
        /\ lastRet.id > id
        /\ lastRet.status.running
        /\ lastRet.status.simRunId # NoRun
        /\ runState.simRunId = lastRet.status.simRunId
        /\ nCalls' = nCalls)
       => runState'.simRunId = runState.simRunId]_vars

\* C36: activeWorkers is the number of shard loops that have been started
\* and have not exited.
C36ActiveWorkersCountsShards == SIM.activeWorkers = Cardinality(DOMAIN shards)

\* The case of a stop whose drain guard expired, followed by a start: the
\* start was issued with no call in flight, after the stop before it had
\* returned, and has returned with fewer shards counted than are alive.
C36StartAfterExpiredStop ==
  /\ lastRet.op = "start"
  /\ lastRet.result = "ok"
  /\ lastRet.quiet
  /\ lastRet.prev.op = "stop"
  /\ lastRet.prev.id < lastRet.id
  /\ pending = EmptyMap
  /\ SIM.activeWorkers < Cardinality(DOMAIN shards)

\* C37: once a run's descriptor has been closed (the stop that closed it
\* has returned), no step adds an incident stamped with that run's runId.
C37NoInsertAfterClose ==
  [][\A i \in 1..Len(sim_runs) :
       sim_runs[i].endedAt # NoTime =>
         { e \in incident_events' : e.simRunId = sim_runs[i].simRunId }
           = { e \in incident_events : e.simRunId = sim_runs[i].simRunId }]_vars

\* A shard sleeps after a tick none of whose inserts failed and whose last
\* batch it built after its run's descriptor had been closed.
C37LateBatchStored ==
  \E w \in DOMAIN shards :
    /\ shards[w].late
    /\ ~shards[w].failed
    /\ shards[w].pc = "sleep"
    /\ RunClosed(sim_runs, shards[w].simRunId)

\* C38: for every seed start accepts, 0 among them, the rejection loop of
\* the standard-normal sampler ends, and the first event of a shard tick
\* gets built.  The loop is a function of the generator state alone, so it
\* ends exactly when no iteration begins in the state the loop was entered
\* with.
C38SamplerTerminates ==
  \A id \in DOMAIN pending :
    (pending[id].op = "firstEvent" /\ pending[id].pc = "boxMuller" /\ pending[id].iters > 0)
      => pending[id].s # pending[id].s0

\* C39: repairScheduler.configure on a running scheduler leaves the repair
\* timers alone: whatever it changes, cadenceMs included, the timer table
\* and the pending timers are after the call what they were before it.
C39ConfigureKeepsTimers ==
  [][\A cfg \in Overrides \ {EmptyMap} :
       (SCHED.state = "running" /\ SchedConfigureCall(cfg))
       => /\ SCHED'.timersByIncident = SCHED.timersByIncident
          /\ timeouts' = timeouts]_vars

\* C40: every repair record carries the run id of the run in which its
\* incident was inserted, whatever the interleaving of ticks, stops and
\* starts: a record of fix_events and the incident_events document it
\* repairs name the same run.
C40RepairCarriesIncidentRun ==
  \A i \in 1..Len(fix_events) :
     \A d \in incident_events :
        d.id = fix_events[i].incidentId => d.simRunId = fix_events[i].simRunId

\* The case C40 names: a repair record of another run than its incident's,
\* stored after a scheduler stop returned and a start followed it.
C40StampedAcrossStopAndStart ==
  /\ ~C40RepairCarriesIncidentRun
  /\ lastRet.op = "schedStart"
  /\ lastRet.prev.op = "schedStop"

====
